---- MODULE Spec2Model ----
(***************************************************************************)
(* A model of the navigation queue of AppRouter (loadUrl,                  *)
(* _queueInstruction, _dequeueInstruction, processResult,                  *)
(* resolveInstruction, restorePreviousLocation) and of the pipeline it     *)
(* drives (PipelineProvider, Pipeline, createNextFn and the built-in       *)
(* steps).                                                                 *)
(*                                                                         *)
(* Every invocation of the async function _dequeueInstruction is a frame   *)
(* with a program counter; a frame is suspended wherever the code awaits.  *)
(* Route matching, the history backend, the component loader, the view     *)
(* ports and the lifecycle callbacks are external: what they return is a   *)
(* nondeterministic choice among the outcomes the code distinguishes.      *)
(*                                                                         *)
(* Spec follows the router: a pipeline run is one turn there, since its    *)
(* steps touch nothing the queue handling reads.  SpecPipeline follows the *)
(* provider and a single pipeline run step by step.                        *)
(***************************************************************************)
EXTENDS Integers, Sequences, FiniteSets, TLC

(***************************************************************************)
(* Bounds                                                                  *)
(***************************************************************************)
\* AppRouter.maxInstructionCount is a public, configurable property (reset()
\* sets its default, 10); the model runs the router configured with a small
\* value so that the whole retry chain is explored.
maxInstructionCount == 2
\* calls of loadUrl made by the environment (history events, user code)
MaxLoads == 2
\* _dequeueInstruction() calls of attempt 0 that may be suspended at once
MaxPending == 2
\* steps registered in the slots of the provider at once
MaxSteps == 2
\* pipeline runs started one after the other when a run is followed step by
\* step
MaxRuns == 2

\* instructions created in one behaviour: from the environment's loads, and
\* from the loads a navigation makes itself (redirects, the fallback route)
MaxInstr == 4
Ids == 1..MaxInstr

(***************************************************************************)
(* Values                                                                  *)
(***************************************************************************)
\* the URLs a route table may resolve; the component of "a" owns a child
\* router
Routes == {"a", "b"}
\* a route table with one route
OneRoute == {"a"}
\* the URLs the history can hand to loadUrl: "missing" matches no route, and
\* the route table has no catch-all handler (config.unknownRoutes is not used)
Urls == Routes \cup {"missing"}
Routers == {"app", "child"}

\* kinds of value a step or callback can hand to next.cancel / next.reject /
\* next.complete or throw: an Error, a navigation command (Redirect), any
\* other value (false, a string, ...); next.complete() of a run whose steps
\* all advanced carries undefined
Outputs == {"Error", "Redirect", "Value"}

CoreSteps == {"buildPlan", "canDeactivate", "loadRoute", "canActivate",
              "deactivate", "activate", "commit"}
SlotNames == {"authorize", "preActivate", "preRender", "postRender"}
CustomSteps == {"s1", "s2"}

NoResult == [status |-> "", out |-> "", url |-> ""]

VARIABLES
  queue,                \* AppRouter._queue: <<[id, url], ...>>
  isActive,             \* AppRouter.isActive
  isNavigating,         \* Router.isNavigating
  couldDeactivate,      \* Router.couldDeactivate
  currentInstruction,   \* Router.currentInstruction, per router (0: null)
  previousLocation,     \* history.previousLocation ("" when unset)
  fallbackRoute,        \* Router.fallbackRoute ("" when not configured)
  routes,               \* the URLs the configured route table resolves
  loads,                \* loadUrl calls whose instruction is being created
  loadCount,            \* number of loadUrl calls made by the environment
  nextId,               \* the next instruction to be created
  pending,              \* suspended _dequeueInstruction() calls of attempt 0,
                        \* by the value isNavigating had when they were made
  chains,               \* the navigations in flight: per navigation, the
                        \* stack of nested _dequeueInstruction invocations
  slots,                \* PipelineSlot.steps of the slots, per slot
  effects,              \* what the last turn did: events published, calls of
                        \* restorePreviousLocation, errors caught or escaped
  runs,                 \* per instruction: pipeline runs started for it
  superseded,           \* instructions that had a newer one queued in front
  fragment,             \* currentInstruction.fragment with its query string
                        \* ("" while there is no current instruction)
  resolved,             \* instructions whose resolve callback was invoked
  consulted,            \* the current instructions whose components have all
                        \* allowed canDeactivate since couldDeactivate was reset
  shiftedAt,            \* per instruction: the attempt that took it (-1: none)
  direction,            \* one of isNavigatingFirst, New, Refresh, Forward, Back
                        \* is set
  lifecycle,            \* the lifecycle step in progress: processDeactivatable
                        \* or processActivatable over its list of callbacks
  planning              \* the _buildNavigationPlan call in progress

vars == <<queue, isActive, isNavigating, couldDeactivate, currentInstruction,
          previousLocation, fallbackRoute, routes, loads, loadCount, nextId, pending,
          chains, slots, effects, runs, superseded, fragment, resolved,
          consulted, shiftedAt, direction, lifecycle, planning>>

(***************************************************************************)
(* Pipeline provider and pipeline                                          *)
(***************************************************************************)
\* a master sequence with the authorize slot behind can-activate
BuildStepsSwapped ==
  <<"buildPlan", "canDeactivate", "loadRoute", "canActivate", "authorize",
    "preActivate", "deactivate", "activate", "preRender", "commit",
    "postRender">>
\* PipelineProvider._buildSteps: the master sequence, slots marked by name
BuildSteps ==
  <<"buildPlan", "canDeactivate", "loadRoute", "authorize", "canActivate",
    "preActivate", "deactivate", "activate", "preRender", "commit",
    "postRender">>

RECURSIVE Flatten(_, _, _)
\* Pipeline.addStep over the master sequence: a slot contributes its steps
\* (PipelineSlot.getSteps) in order, a core step contributes itself
Flatten(master, sl, useCanDeactivateStep) ==
  IF master = <<>> THEN <<>>
  ELSE LET h == Head(master)
           rest == Flatten(Tail(master), sl, useCanDeactivateStep)
       IN IF h \in SlotNames THEN sl[h] \o rest
          ELSE IF useCanDeactivateStep \/ h # "canDeactivate" THEN <<h>> \o rest
          ELSE rest

\* PipelineProvider.createPipeline(useCanDeactivateStep)
CreatePipeline(sl, useCanDeactivateStep) ==
  Flatten(BuildSteps, sl, useCanDeactivateStep)

\* what a step does when it is invoked: it calls next(), next.cancel(out),
\* next.reject(out) or next.complete(out), throws synchronously ("throw"), or
\* fails asynchronously ("fail": a rejected promise, or an exception inside an
\* async function or a promise callback)
Beh(kind, out, url) == [kind |-> kind, out |-> out, url |-> url]
Proceed == Beh("next", "Undefined", "")
\* a navigation command handed to next.cancel: a Redirect to a route
RedirectTargets == routes
Redirects == {Beh("cancel", "Redirect", u) : u \in RedirectTargets}
Faults(kind) == {Beh(kind, o, "") : o \in {"Error", "Value"}}
Terminal(kind) ==
  {Beh(kind, o, "") : o \in Outputs \ {"Redirect"}}
    \cup {Beh(kind, "Redirect", u) : u \in RedirectTargets}

\* BuildNavigationPlanStep.run: the plan is set and next() called, a Redirect
\* cancels, a rejection of _buildNavigationPlan is passed to next.cancel
BuildPlanBehaviours == {Proceed} \cup Redirects \cup Faults("fail")

\* processDeactivatable / processActivatable without ignoreResult: every
\* callback allows, or one denies (false, an Error value, a navigation command
\* that does not continue) and next.cancel(val) ends the step, or a callback
\* throws or rejects and next.cancel(error) ends it
CanBehaviours ==
  {Proceed, Beh("cancel", "Value", ""), Beh("cancel", "Error", "")}
    \cup Redirects \cup Faults("fail")

\* processDeactivatable / processActivatable with ignoreResult: results are
\* ignored, but a callback that throws or rejects still reaches next.cancel
IgnoreResultBehaviours == {Proceed} \cup Faults("fail")

\* LoadRouteStep.run: loadNewRoute(...).then(next).catch(next.cancel); a child
\* plan that is a Redirect is a rejection carrying the Redirect;
\* determineWhatToLoad may throw before the promise exists
LoadRouteBehaviours ==
  {Proceed, Beh("throw", "Error", "")} \cup Redirects \cup Faults("fail")

\* CommitChangesStep.run: an async function; _commitChanges may throw
CommitBehaviours == {Proceed, Beh("fail", "Error", "")}

\* a step registered in a slot may do anything the Next interface offers
CustomBehaviours ==
  {Proceed} \cup Terminal("cancel") \cup Terminal("reject")
    \cup Terminal("complete") \cup Faults("throw") \cup Faults("fail")

StepBehaviours(step) ==
  CASE step = "buildPlan" -> BuildPlanBehaviours
    [] step \in {"canDeactivate", "canActivate"} -> CanBehaviours
    [] step \in {"deactivate", "activate"} -> IgnoreResultBehaviours
    [] step = "loadRoute" -> LoadRouteBehaviours
    [] step = "commit" -> CommitBehaviours
    [] OTHER -> CustomBehaviours

(***************************************************************************)
(* Frames: the invocations of _dequeueInstruction that took an instruction *)
(***************************************************************************)
NoBeh == Beh("", "", "")
NoReturn == [kind |-> "none", res |-> NoResult]
NoBefore == [r \in Routers |-> 0]

\* an invocation of _dequeueInstruction(count), suspended at its first await
Frame(count) ==
  [pc |-> "await", count |-> count, id |-> 0, url |-> "", before |-> NoBefore,
   steps |-> <<>>, idx |-> 0, trace |-> <<>>, last |-> NoBeh,
   own |-> NoResult, called |-> {}]

Top(ch) == ch.frames[Len(ch.frames)]
SetTop(ch, f) == [ch EXCEPT !.frames[Len(ch.frames)] = f, !.ret = NoReturn]
\* the innermost invocation f calls _dequeueInstruction(count) and awaits it
Call(ch, f, count) ==
  [SetTop(ch, f) EXCEPT !.frames = Append(@, Frame(count))]
Remove(chs, c) ==
  [k \in 1..(Len(chs) - 1) |-> IF k < c THEN chs[k] ELSE chs[k + 1]]
\* the innermost invocation of navigation c returns res (kind "value") or
\* throws (kind "throw"); its awaiting caller picks the outcome up on its next
\* turn; nobody awaits the outermost invocation
Return(chs, c, kind, res) ==
  IF Len(chs[c].frames) = 1 THEN Remove(chs, c)
  ELSE [chs EXCEPT ![c].frames = SubSeq(@, 1, Len(@) - 1),
                   ![c].ret = [kind |-> kind, res |-> res]]

NumPending == pending[TRUE] + pending[FALSE]
\* a call _dequeueInstruction() runs to its first await
CallTop == [pending EXCEPT ![isNavigating] = @ + 1]

(***************************************************************************)
(* createNextFn: the continuation protocol of one pipeline run             *)
(***************************************************************************)
\* a completion handler that records the result and lets the run go on
SettleAndGoOn(tk, status, out, url) ==
  IF tk.idx < Len(tk.steps)
  THEN [tk EXCEPT !.idx = tk.idx + 1, !.trace = Append(tk.trace, tk.idx + 1),
                  !.own = [status |-> status, out |-> out, url |-> url]]
  ELSE [tk EXCEPT !.pc = "result",
                  !.own = [status |-> status, out |-> out, url |-> url]]
\* createCompletionHandler: next.complete / next.cancel / next.reject settle
\* the run with {status, output, completed: status === completed}
Settle(tk, status, out, url) ==
  [tk EXCEPT !.pc = "result",
             !.own = [status |-> status, out |-> out, url |-> url]]

\* next(): index++, then the step at index is invoked, or next.complete()
NextFn(tk) ==
  IF tk.idx < Len(tk.steps)
  THEN [tk EXCEPT !.idx = tk.idx + 1, !.trace = Append(tk.trace, tk.idx + 1)]
  ELSE Settle(tk, "completed", "Undefined", "")

\* a catch that hands the error to next.cancel
CaughtAsCanceled(tk, b) == Settle(tk, "canceled", b.out, b.url)
\* the catch of createNextFn: a step that throws synchronously
Caught(tk, b) == Settle(tk, "rejected", b.out, b.url)

\* a rejection that would be handed to next.reject
RejectedAsRejected(tk, b) == Settle(tk, "rejected", b.out, b.url)
\* a rejected promise travels up the chain of returned promises to the nearest
\* .catch(next.cancel): the one of the step itself, of LoadRouteStep or of
\* BuildNavigationPlanStep, which is the first step of every pipeline
Rejected(tk, b) == Settle(tk, "canceled", b.out, b.url)

\* the state of the run after its current step has behaved as b
StepResult(tk, b) ==
  LET t1 == [tk EXCEPT !.last = b] IN
  CASE b.kind = "next" -> NextFn(t1)
    [] b.kind = "cancel" -> Settle(t1, "canceled", b.out, b.url)
    [] b.kind = "reject" -> Settle(t1, "rejected", b.out, b.url)
    [] b.kind = "complete" -> Settle(t1, "completed", b.out, b.url)
    [] b.kind = "throw" -> Caught(t1, b)
    [] b.kind = "fail" -> Rejected(t1, b)

\* Pipeline.run: createNextFn(instruction, steps), then the first next()
Run(tk, steps) ==
  [tk EXCEPT !.pc = "run", !.steps = steps, !.idx = 1, !.trace = <<1>>]

\* what a step calls on the view models and view ports while it runs
Calls(step, b) ==
  CASE step \in {"canDeactivate", "canActivate", "deactivate", "activate"} -> {step}
    [] step = "commit" /\ b.kind = "next" -> {"process", "swap"}
    [] OTHER -> {}

\* processDeactivatable: router.couldDeactivate = true, then next()
SetsCouldDeactivate(step, b) ==
  step \in {"canDeactivate", "deactivate"} /\ b.kind = "next"

\* route "a" is served by a component that owns a child router
HasChildRouter(u) == u = "a"

\* a _commitChanges that does not touch router.currentInstruction
CommitElsewhere(cur, id, url, b) == cur
\* _commitChanges: router.currentInstruction = this comes first; the child
\* instruction commits after the view port has processed the parent's
Commit(cur, id, url, b) ==
  [r \in Routers |->
     IF r = "app" THEN id
     ELSE IF HasChildRouter(url) /\ b.kind = "next" THEN id
     ELSE cur[r]]

\* a pipeline in which every step after the plan is built commits
CommitsEarly(step) == step # "buildPlan"
\* CommitChangesStep is the step that calls _commitChanges
Commits(step) == step = "commit"

\* one pipeline run together with the router state its steps write
\* processDeactivatable of the canDeactivate step went through the
\* canDeactivate callbacks of the current instruction's components and
\* every one of them allowed
Consults(step, b) == step = "canDeactivate" /\ b.kind = "next"

RunOf(f, could, cur, asked, frag) ==
  [f |-> f, could |-> could, cur |-> cur, asked |-> asked, frag |-> frag]

\* the step the run has reached is invoked and behaves as b
Step(rs, b) ==
  LET step == rs.f.steps[rs.f.idx] IN
  [f |-> StepResult([rs.f EXCEPT !.called = @ \cup Calls(step, b)], b),
   could |-> IF SetsCouldDeactivate(step, b) THEN TRUE ELSE rs.could,
   cur |-> IF Commits(step) THEN Commit(rs.cur, rs.f.id, rs.f.url, b)
           ELSE rs.cur,
   asked |-> IF Consults(step, b) THEN rs.asked \cup {rs.cur["app"]}
             ELSE rs.asked,
   frag |-> IF Commits(step) /\ Commit(rs.cur, rs.f.id, rs.f.url, b) # rs.cur
            THEN rs.f.url ELSE rs.frag]

RECURSIVE RunToEnd(_)
\* the ways a run can go on until it settles; its steps read and write
\* nothing that the rest of the router touches while the run is in progress
RunToEnd(rs) ==
  IF rs.f.pc = "result" THEN {rs}
  ELSE UNION {RunToEnd(after) :
                after \in {Step(rs, b) :
                             b \in StepBehaviours(rs.f.steps[rs.f.idx])}}

(***************************************************************************)
(* Router operations                                                       *)
(***************************************************************************)
\* history.navigate(url, {trigger: true}) calls the route handler, loadUrl
Navigate(l, u) == [l EXCEPT ![u] = @ + 1]

\* no router.navigate call
NoNavigation == [url |-> "", trigger |-> FALSE, replace |-> FALSE]

\* a restorePreviousLocation that looks at the fallback route first
RestorePreviousLocationFallbackFirst ==
  IF fallbackRoute # ""
  THEN [url |-> fallbackRoute, trigger |-> TRUE, replace |-> TRUE]
  ELSE IF previousLocation # ""
  THEN [url |-> previousLocation, trigger |-> FALSE, replace |-> TRUE]
  ELSE NoNavigation
\* restorePreviousLocation: the router.navigate call it makes, if any
RestorePreviousLocation ==
  IF previousLocation # ""
  THEN [url |-> previousLocation, trigger |-> FALSE, replace |-> TRUE]
  ELSE IF fallbackRoute # ""
  THEN [url |-> fallbackRoute, trigger |-> TRUE, replace |-> TRUE]
  ELSE NoNavigation

\* router.navigate(url, options) hands the URL to history.navigate, which
\* calls the route handler, loadUrl, only when options.trigger is set
HistoryNavigate(l, call) == IF call.trigger THEN Navigate(l, call.url) ELSE l

\* restorePreviousLocation: the previous location is restored without
\* triggering the route handler, the fallback route is navigated to
RestoreLoads(l) == HistoryNavigate(l, RestorePreviousLocation)

\* _queueInstruction: this._queue.unshift(instruction)
Unshift(q, e) == <<e>> \o q

\* a guard that lets every call through
DequeueGuardOff(count) == FALSE
\* _dequeueInstruction, line 190: the single-flight guard
DequeueGuard(count) == isNavigating /\ count = 0
\* lines 193-194: shift(), then _queue.length = 0
Shifted(q) == Head(q)
\* a shift() that is not followed by _queue.length = 0
AfterShiftKeepsRest(q) == Tail(q)
AfterShift(q) == <<>>
\* line 220
IsRestoreAttempt(count) == count = maxInstructionCount - 1
\* a check of the attempt count that never gives up
NeverExceedsMax(count) == FALSE
\* line 224
ExceedsMax(count) == count > maxInstructionCount

\* the path _dequeueInstruction(count) takes once it resumes
DequeueBranch(count) ==
  IF DequeueGuard(count) THEN "busy"
  ELSE IF queue = <<>> THEN "empty"
  ELSE IF count = 0 THEN "run"
  ELSE IF IsRestoreAttempt(count) THEN "restore"
  ELSE IF ExceedsMax(count) THEN "throw"
  ELSE "run"

\* resolveInstruction: the event of a top-level attempt
EventName(res) ==
  IF res.out = "Error" THEN "error"
  ELSE IF res.status # "completed" THEN "canceled"
  ELSE "success"

\* a resolveInstruction that gives every attempt the events of a top-level
\* one
PublishedAsTop(count, res) == <<EventName(res), "complete">>
\* resolveInstruction: the events an attempt publishes when it ends
Published(count, res) ==
  IF count = 0 THEN <<EventName(res), "complete">> ELSE <<"childComplete">>

\* a processResult that returns the run's own result whatever the chained
\* attempt returned
FinalResultOwn(own, inner) == own
\* processResult, line 294: finalResult || innerResult || result
FinalResult(own, inner) ==
  IF own.out # "Redirect" THEN own
  ELSE IF inner # NoResult THEN inner
  ELSE own

\* the catch of _dequeueInstruction: { output: Error }
ErrorResult == [status |-> "", out |-> "Error", url |-> ""]

\* the invocation f of navigation ch has taken the head of the queue and
\* starts a pipeline run for it
StartRun(ch, f) ==
  LET e == Shifted(queue)
      steps == CreatePipeline(slots, ~couldDeactivate)
  IN [SetTop(ch, Run([f EXCEPT !.id = e.id, !.url = e.url,
                               !.before = currentInstruction], steps))
        EXCEPT !.navRuns = @ + 1]

(***************************************************************************)
(* Initial state                                                           *)
(***************************************************************************)
EmptySlots == [n \in SlotNames |-> <<>>]
\* no lifecycle step and no _buildNavigationPlan call is in progress
NoLifecycle == [pc |-> "idle"]
NoPlanning == [pc |-> "idle"]

\* the router after construction, configured with the routes of table
InitWith(table) ==
  /\ routes = table
  /\ queue = <<>>
  /\ isActive = FALSE
  /\ isNavigating = FALSE
  /\ couldDeactivate = FALSE
  /\ currentInstruction = NoBefore
  /\ previousLocation = ""
  /\ fallbackRoute \in {""} \cup table
  /\ loads = [u \in Urls |-> 0]
  /\ loadCount = 0
  /\ nextId = 1
  /\ pending = [b \in BOOLEAN |-> 0]
  /\ chains = <<>>
  /\ slots = EmptySlots
  /\ effects = <<>>
  /\ runs = [i \in Ids |-> 0]
  /\ superseded = {}
  /\ fragment = ""
  /\ consulted = {}
  /\ resolved = {}
  /\ shiftedAt = [i \in Ids |-> -1]
  /\ direction = FALSE
  /\ lifecycle = NoLifecycle
  /\ planning = NoPlanning
Init == InitWith(OneRoute)
\* the router configured with two routes
InitRoutes == InitWith(Routes)

(***************************************************************************)
(* Actions of the router                                                   *)
(***************************************************************************)
history == <<runs, superseded, fragment, resolved, consulted, shiftedAt,
             direction>>
\* what the steps of a pipeline keep to themselves
inStep == <<lifecycle, planning>>

\* lines 193-198: the head of the queue is taken by attempt count
\* currentNavigationTracker is not set before the first instruction is taken
TrackerUnset == \A i \in Ids : shiftedAt[i] = -1
\* the instruction is shifted off the queue and isNavigating is set; a
\* direction flag is set unless the history state holds the tracker the
\* router holds already
Take(count) ==
  /\ queue' = AfterShift(queue)
  /\ isNavigating' = TRUE
  /\ shiftedAt' = [shiftedAt EXCEPT ![Shifted(queue).id] = count]
  /\ \E flagged \in BOOLEAN :
       /\ TrackerUnset => flagged
       /\ direction' = (direction \/ flagged)

\* loadUrl(url), called by the history for a URL change: the instruction is
\* created asynchronously
LoadUrl(u) ==
  /\ isActive
  /\ loadCount < MaxLoads
  /\ loadCount' = loadCount + 1
  /\ loads' = Navigate(loads, u)
  /\ effects' = <<>>
  /\ UNCHANGED <<queue, isActive, isNavigating, couldDeactivate,
                 currentInstruction, previousLocation, fallbackRoute, routes, nextId,
                 pending, chains, slots, history>>

\* loadUrl's continuation: _queueInstruction(instruction)
QueueInstruction(u) ==
  /\ loads[u] > 0
  /\ nextId <= MaxInstr
  /\ NumPending < MaxPending
  /\ loads' = [loads EXCEPT ![u] = @ - 1]
  /\ queue' = Unshift(queue, [id |-> nextId, url |-> u])
  /\ nextId' = nextId + 1
  /\ superseded' = superseded \cup {queue[k].id : k \in DOMAIN queue}
  /\ UNCHANGED <<fragment, resolved, consulted>>
  /\ pending' = CallTop
  /\ effects' = <<>>
  /\ UNCHANGED <<isActive, isNavigating, couldDeactivate, currentInstruction,
                 previousLocation, fallbackRoute, routes, loadCount, chains, slots,
                 runs, shiftedAt,
                    direction>>

\* activate() on a router that is not active: the options are assigned,
\* history.activate is called and _dequeueInstruction() is called
Activate ==
  /\ ~isActive
  /\ NumPending < MaxPending
  /\ isActive' = TRUE
  /\ pending' = CallTop
  /\ effects' = <<"activate", "options", "historyActivate">>
  /\ UNCHANGED <<queue, isNavigating, couldDeactivate, currentInstruction,
                 previousLocation, fallbackRoute, routes, loads, loadCount, nextId,
                 chains, slots, history>>

\* activate() on an active router, going on as on an inactive one
ActivateActiveAgain ==
  /\ isActive
  /\ NumPending < MaxPending
  /\ pending' = CallTop
  /\ effects' = <<"activate", "options", "historyActivate">>
  /\ UNCHANGED <<queue, isActive, isNavigating, couldDeactivate,
                 currentInstruction, previousLocation, fallbackRoute, routes, loads,
                 loadCount, nextId, chains, slots, history>>

\* activate() on an active router: it returns a resolved promise
ActivateActive ==
  /\ isActive
  /\ effects' = <<"activate">>
  /\ UNCHANGED <<queue, isActive, isNavigating, couldDeactivate,
                 currentInstruction, previousLocation, fallbackRoute, routes, loads,
                 loadCount, nextId, pending, chains, slots, history>>

\* deactivate()
Deactivate ==
  /\ isActive' = FALSE
  /\ effects' = <<"deactivate", "historyDeactivate">>
  /\ UNCHANGED <<queue, isNavigating, couldDeactivate, currentInstruction,
                 previousLocation, fallbackRoute, routes, loads, loadCount, nextId,
                 pending, chains, slots, history>>

\* registerViewPort(viewPort) on an active router
RegisterViewPort ==
  /\ isActive
  /\ NumPending < MaxPending
  /\ pending' = CallTop
  /\ effects' = <<>>
  /\ UNCHANGED <<queue, isActive, isNavigating, couldDeactivate,
                 currentInstruction, previousLocation, fallbackRoute, routes, loads,
                 loadCount, nextId, chains, slots, history>>

\* a _dequeueInstruction() call of attempt 0, made when isNavigating was nav,
\* resumes after its first await
DequeueInstruction(nav) ==
  /\ pending[nav] > 0
  /\ pending' = [pending EXCEPT ![nav] = @ - 1]
  /\ IF DequeueBranch(0) = "run"
     THEN /\ Take(0)
          /\ chains' = Append(chains,
               StartRun([frames |-> <<Frame(0)>>, ret |-> NoReturn,
                         navRuns |-> 0], Frame(0)))
          /\ runs' = [runs EXCEPT ![Shifted(queue).id] = @ + 1]
          /\ effects' = <<"processing">>
     ELSE /\ effects' = <<>>
          /\ UNCHANGED <<queue, isNavigating, chains, runs, shiftedAt,
                    direction>>
  /\ UNCHANGED <<isActive, couldDeactivate, currentInstruction,
                 previousLocation, fallbackRoute, routes, loads, loadCount, nextId,
                 slots, superseded, fragment, resolved, consulted>>

\* the call _dequeueInstruction(count), count > 0, that processResult or the
\* restoring attempt of navigation c awaits resumes after its first await
DequeueRetry(c) ==
  LET ch == chains[c]
      f == Top(ch)
      br == DequeueBranch(f.count)
      e == Shifted(queue)
  IN /\ f.pc = "await"
     /\ \/ /\ br \in {"busy", "empty"}
           /\ chains' = Return(chains, c, "value", NoResult)
           /\ effects' = <<>>
           /\ UNCHANGED <<queue, isNavigating, loads, runs, shiftedAt,
                    direction>>
        \/ /\ br = "run"
           /\ Take(f.count)
           /\ chains' = [chains EXCEPT ![c] = StartRun(ch, f)]
           /\ runs' = [runs EXCEPT ![e.id] = @ + 1]
           /\ effects' = <<>>
           /\ UNCHANGED loads
        \/ /\ br = "restore"
           /\ Take(f.count)
           /\ loads' = RestoreLoads(loads)
           /\ chains' = [chains EXCEPT ![c] =
                Call(ch, [f EXCEPT !.pc = "tail", !.id = e.id, !.url = e.url],
                     f.count + 1)]
           /\ effects' = <<"restore">>
           /\ UNCHANGED runs
        \/ /\ br = "throw"
           /\ Take(f.count)
           /\ chains' = Return(chains, c, "throw", NoResult)
           /\ effects' = IF Len(ch.frames) = 1 THEN <<"uncaught">> ELSE <<"throw">>
           /\ UNCHANGED <<loads, runs>>
     /\ UNCHANGED <<isActive, couldDeactivate, currentInstruction,
                    previousLocation, fallbackRoute, routes, loadCount, nextId,
                    pending, slots, superseded, fragment, resolved,
                    consulted>>

\* what _dequeueInstruction keeps of a settled run: its result
Outcome(f) ==
  [Frame(f.count) EXCEPT !.pc = "result", !.id = f.id, !.url = f.url,
                         !.last = f.last, !.own = f.own]

\* pipeline.run(instruction) of navigation c goes on until it settles
PipelineRun(c) ==
  LET ch == chains[c]
      f == Top(ch)
  IN /\ f.pc = "run"
     /\ \E rs \in RunToEnd(RunOf(f, couldDeactivate, currentInstruction,
                                 consulted, fragment)) :
          /\ chains' = [chains EXCEPT ![c] = SetTop(ch, Outcome(rs.f))]
          /\ couldDeactivate' = rs.could
          /\ currentInstruction' = rs.cur
          /\ consulted' = rs.asked
          /\ fragment' = rs.frag
     /\ effects' = <<>>
     /\ UNCHANGED <<queue, isActive, isNavigating, previousLocation,
                    fallbackRoute, routes, loads, loadCount, nextId, pending, slots,
                    runs, superseded, resolved, shiftedAt,
                    direction>>

\* a processResult that takes every result for a completed one
NotCompletedNever(own) == FALSE
\* processResult, line 281: !result.completed
NotCompleted(own) == own.status # "completed"

\* the result comes from a step that threw or failed
Faulted(f) == IF f.last.kind \in {"throw", "fail"} THEN <<"fault">> ELSE <<>>

\* processResult(instruction, result, count, router), up to its await of the
\* inner _dequeueInstruction(count + 1)
ProcessResult(c) ==
  LET ch == chains[c]
      f == Top(ch)
      waiting == [Frame(f.count) EXCEPT
                    !.pc = "waitInner", !.id = f.id, !.url = f.url,
                    !.own = [f.own EXCEPT !.url = ""]]
  IN /\ f.pc = "result"
     /\ IF f.own.out = "Redirect"
        THEN /\ loads' = Navigate(loads, f.own.url)
             /\ effects' = <<>>
        ELSE IF NotCompleted(f.own)
        THEN /\ loads' = RestoreLoads(loads)
             /\ effects' = Faulted(f) \o <<"restore">>
        ELSE /\ effects' = <<>>
             /\ UNCHANGED loads
     /\ chains' = [chains EXCEPT ![c] = Call(ch, waiting, f.count + 1)]
     /\ UNCHANGED <<queue, isActive, isNavigating, couldDeactivate,
                    currentInstruction, previousLocation, fallbackRoute, routes,
                    loadCount, nextId, pending, slots, history>>

\* an attempt that never counts as the top-level one
IsInnerInstructionAlways(count) == TRUE
\* resolveInstruction's isInnerInstruction: !!instructionCount
IsInnerInstruction(count) == count > 0

\* the inner _dequeueInstruction has settled: processResult returns or throws,
\* the catch of line 234 turns an error into a result, and
\* resolveInstruction(instruction, result, count > 0, router) ends the attempt
ResolveInstruction(c) ==
  LET ch == chains[c]
      f == Top(ch)
      threw == ch.ret.kind = "throw"
      result == IF threw THEN ErrorResult ELSE FinalResult(f.own, ch.ret.res)
      caught == IF threw THEN <<"catch">> ELSE <<>>
  IN /\ f.pc = "waitInner"
     /\ ch.ret.kind # "none"
     /\ chains' = Return(chains, c, "value", result)
     /\ resolved' = resolved \cup {f.id}
     /\ effects' = caught \o Published(f.count, result)
     /\ IF ~IsInnerInstruction(f.count)
        THEN /\ isNavigating' = FALSE
             /\ couldDeactivate' = FALSE
             /\ consulted' = {}
             /\ direction' = FALSE
             /\ previousLocation' =
                  IF EventName(result) = "success" THEN f.url
                  ELSE previousLocation
        ELSE UNCHANGED <<isNavigating, couldDeactivate, consulted, direction,
                         previousLocation>>
     /\ UNCHANGED <<queue, isActive, currentInstruction, fallbackRoute, routes, loads,
                    loadCount, nextId, pending, slots, runs, superseded,
                    fragment, shiftedAt>>

\* line 223: the restoring attempt returns what the attempt it called settles
\* with
TailReturn(c) ==
  LET ch == chains[c]
      f == Top(ch)
  IN /\ f.pc = "tail"
     /\ ch.ret.kind # "none"
     /\ chains' = Return(chains, c, ch.ret.kind, ch.ret.res)
     /\ effects' = IF ch.ret.kind = "throw" /\ Len(ch.frames) = 1
                   THEN <<"uncaught">> ELSE <<>>
     /\ UNCHANGED <<queue, isActive, isNavigating, couldDeactivate,
                    currentInstruction, previousLocation, fallbackRoute, routes, loads,
                    loadCount, nextId, pending, slots, history>>

Next ==
  \/ UNCHANGED inStep /\ \E u \in routes : LoadUrl(u)
  \/ UNCHANGED inStep /\ \E u \in routes : QueueInstruction(u)
  \/ UNCHANGED inStep /\ Activate
  \/ UNCHANGED inStep /\ RegisterViewPort
  \/ UNCHANGED inStep /\ \E nav \in BOOLEAN : DequeueInstruction(nav)
  \/ UNCHANGED inStep /\ \E c \in DOMAIN chains : DequeueRetry(c)
  \/ UNCHANGED inStep /\ \E c \in DOMAIN chains : PipelineRun(c)
  \/ UNCHANGED inStep /\ \E c \in DOMAIN chains : ProcessResult(c)
  \/ UNCHANGED inStep /\ \E c \in DOMAIN chains : ResolveInstruction(c)
  \/ UNCHANGED inStep /\ \E c \in DOMAIN chains : TailReturn(c)

Spec == Init /\ [][Next]_vars
\* the router with a table of two routes
SpecRoutes == InitRoutes /\ [][Next]_vars

\* _createNavigationInstruction(url) of the app router (no parent): an
\* instruction when a recognizer matches the URL, else the rejection of its
\* last line, as there is no catchAllHandler
CreateNavigationInstruction(u) ==
  IF u \in routes THEN "instruction" ELSE "Route not found"

\* a catch handler that throws the error again
FaultSettlementRethrown == "rejected"
\* loadUrl's catch handler returns nothing: the promise of
\* .then(...).catch(...) is fulfilled with undefined
FaultSettlement == "fulfilled"

\* loadUrl's catch handler, for a URL whose instruction could not be created:
\* logger.error(error); restorePreviousLocation(this)
ResolutionFault(u) ==
  /\ loads[u] > 0
  /\ CreateNavigationInstruction(u) = "Route not found"
  /\ loads' = RestoreLoads([loads EXCEPT ![u] = @ - 1])
  /\ effects' = <<"notFound", "restore", FaultSettlement>>
  /\ UNCHANGED <<queue, isActive, isNavigating, couldDeactivate,
                 currentInstruction, previousLocation, fallbackRoute, routes,
                 loadCount, nextId, pending, chains, slots, history>>

\* the router with a history that also reports URLs no route matches
NextResolution ==
  \/ Next
  \/ UNCHANGED inStep /\ \E u \in Urls \ Routes : LoadUrl(u)
  \/ UNCHANGED inStep /\ \E u \in Urls \ Routes : ResolutionFault(u)

SpecResolution == Init /\ [][NextResolution]_vars

\* the router with an application that also deactivates it and activates it
\* again
NextActivation ==
  \/ Next
  \/ UNCHANGED inStep /\ ActivateActive
  \/ UNCHANGED inStep /\ Deactivate

SpecActivation == Init /\ [][NextActivation]_vars

(***************************************************************************)
(* The pipeline provider and one pipeline run, step by step                *)
(***************************************************************************)
\* the names addStep and removeStep are called with: slot names, slot aliases
\* and a name that is neither
SlotInputs == SlotNames \cup {"modelbind", "precommit", "postcomplete", "other"}

\* PipelineProvider._findStep: the slot with that name or alias ("": none)
FindStep(name) ==
  CASE name \in SlotNames -> name
    [] name = "modelbind" -> "preActivate"
    [] name = "precommit" -> "preRender"
    [] name = "postcomplete" -> "postRender"
    [] OTHER -> ""

Includes(steps, step) == \E k \in DOMAIN steps : steps[k] = step
\* Array.prototype.indexOf, from 1; 0 when step is not in steps
IndexOf(steps, step) ==
  IF Includes(steps, step)
  THEN CHOOSE k \in DOMAIN steps :
         steps[k] = step /\ \A j \in 1..(k - 1) : steps[j] # step
  ELSE 0
\* steps.splice(start, 1) with start = indexOf(step): a start of -1 counts
\* from the end of the array
Splice(steps, step) ==
  LET k == IF IndexOf(steps, step) = 0 THEN Len(steps) ELSE IndexOf(steps, step)
  IN [j \in 1..(Len(steps) - 1) |-> IF j < k THEN steps[j] ELSE steps[j + 1]]

NumSteps == Len(slots["authorize"]) + Len(slots["preActivate"])
              + Len(slots["preRender"]) + Len(slots["postRender"])

router == <<queue, isActive, isNavigating, previousLocation, fallbackRoute, routes,
            loads, loadCount, pending, effects, history>>

\* PipelineProvider.addStep(name, step); an unknown name throws. A pipeline
\* holds the steps its slots had when it was created, so a registration made
\* during a run is one made right after it
AddStep(name, step) ==
  LET found == FindStep(name) IN
  /\ chains = <<>>
  /\ NumSteps < MaxSteps
  /\ slots' = IF found # "" /\ ~Includes(slots[found], step)
              THEN [slots EXCEPT ![found] = Append(@, step)]
              ELSE slots
  /\ UNCHANGED <<router, couldDeactivate, currentInstruction, nextId, chains>>

\* PipelineProvider.removeStep(name, step)
RemoveStep(name, step) ==
  LET slot == FindStep(name) IN
  /\ chains = <<>>
  /\ slots' = IF slot # "" /\ slots[slot] # <<>>
              THEN [slots EXCEPT ![slot] = Splice(@, step)]
              ELSE slots
  /\ UNCHANGED <<router, couldDeactivate, currentInstruction, nextId, chains>>

\* createPipeline(!router.couldDeactivate), then pipeline.run(instruction)
\* for a new instruction
BeginRun(u) ==
  /\ chains = <<>>
  /\ nextId <= MaxRuns
  /\ nextId' = nextId + 1
  /\ chains' = <<[frames |-> <<Run([Frame(0) EXCEPT
                    !.id = nextId, !.url = u, !.before = currentInstruction],
                    CreatePipeline(slots, ~couldDeactivate))>>,
                  ret |-> NoReturn, navRuns |-> 1]>>
  /\ UNCHANGED <<router, couldDeactivate, currentInstruction, slots>>

\* the step the run has reached is invoked and behaves as b
RunStep(c) ==
  LET ch == chains[c]
      f == Top(ch)
  IN /\ f.pc = "run"
     /\ \E b \in StepBehaviours(f.steps[f.idx]) :
          LET rs == Step(RunOf(f, couldDeactivate, currentInstruction,
                               consulted, fragment), b)
          IN /\ chains' = [chains EXCEPT ![c] = SetTop(ch, rs.f)]
             /\ couldDeactivate' = rs.could
             /\ currentInstruction' = rs.cur
             /\ consulted' = rs.asked
             /\ fragment' = rs.frag
     /\ UNCHANGED <<queue, isActive, isNavigating, previousLocation,
                    fallbackRoute, routes, loads, loadCount, pending, effects, runs,
                    superseded, resolved, shiftedAt,
                    direction, nextId, slots>>

\* the settled run is handed to its caller: the navigation ends with it
\* (resolveInstruction of the top-level attempt resets couldDeactivate) or
\* goes on with another attempt
EndRun(c, top) ==
  /\ Top(chains[c]).pc = "result"
  /\ chains' = Remove(chains, c)
  /\ couldDeactivate' = IF top THEN FALSE ELSE couldDeactivate
  /\ consulted' = IF top THEN {} ELSE consulted
  /\ resolved' = resolved \cup {Top(chains[c]).id}
  /\ UNCHANGED <<queue, isActive, isNavigating, previousLocation,
                 fallbackRoute, routes, loads, loadCount, pending, effects, runs,
                 superseded, fragment, shiftedAt, direction, currentInstruction,
                 nextId, slots>>

InitPipeline == Init /\ fallbackRoute = ""

NextPipeline ==
  \/ UNCHANGED inStep
       /\ \E name \in SlotInputs, step \in CustomSteps : AddStep(name, step)
  \/ UNCHANGED inStep
       /\ \E name \in SlotInputs, step \in CustomSteps : RemoveStep(name, step)
  \/ UNCHANGED inStep /\ \E u \in routes : BeginRun(u)
  \/ UNCHANGED inStep /\ \E c \in DOMAIN chains : RunStep(c)
  \/ UNCHANGED inStep /\ \E c \in DOMAIN chains, top \in BOOLEAN : EndRun(c, top)

SpecPipeline == InitPipeline /\ [][NextPipeline]_vars

(***************************************************************************)
(* Properties of the navigation queue (checked under Spec)                 *)
(***************************************************************************)
Range(seq) == {seq[k] : k \in DOMAIN seq}
AllFrames == {<<c, k>> : c \in DOMAIN chains, k \in 1..MaxInstr + 2}
Frames == {p \in AllFrames : p[2] <= Len(chains[p[1]].frames)}
FrameAt(p) == chains[p[1]].frames[p[2]]
RunsInProgress == Cardinality({p \in Frames : FrameAt(p).pc = "run"})

\* C1: queue collapse. An instruction that had a newer one queued in front of
\* it before it was taken is never taken from the queue and never enters a
\* pipeline; no instruction is run twice; the instruction an attempt-0
\* _dequeueInstruction takes gets a pipeline run. So X then Y queued on an
\* idle router give exactly one run, for Y.
QueueCollapse ==
  /\ \A i \in superseded : runs[i] = 0 /\ shiftedAt[i] = -1
  /\ \A i \in Ids : runs[i] <= 1
  /\ \A i \in Ids : shiftedAt[i] = 0 => runs[i] = 1

\* X = 1 and Y = 2 were queued on the idle router before any instruction was
\* taken; Y has been taken and run, X is gone
QueueCollapseWitness ==
  /\ 1 \in superseded
  /\ shiftedAt[2] = 0 /\ runs[2] = 1
  /\ runs[1] = 0 /\ queue = <<>>

\* the turn is the resumption of a suspended _dequeueInstruction() call
Resumes == NumPending' < NumPending
\* the turn changes nothing of the router but the suspended call it resumes
NoOp ==
  /\ effects' = <<>>
  /\ UNCHANGED <<queue, isActive, isNavigating, couldDeactivate,
                 currentInstruction, previousLocation, chains>>

\* C2 as stated: a _dequeueInstruction() call made while isNavigating is
\* true is a no-op when it resumes, and at most one pipeline run is in
\* progress.
SingleFlightAtCall ==
  /\ [](RunsInProgress <= 1)
  /\ [][pending'[TRUE] < pending[TRUE] => NoOp]_vars

\* C2, amended: a _dequeueInstruction() call that finds isNavigating true
\* when it resumes from its first await is a no-op, and at most one pipeline
\* run is in progress.
SingleFlight ==
  /\ [](RunsInProgress <= 1)
  /\ [][Resumes /\ isNavigating => NoOp]_vars

\* a run is in progress, a newer instruction waits in the queue, and the
\* call its _queueInstruction made has resumed: it was a no-op
SingleFlightWitness ==
  /\ RunsInProgress = 1
  /\ queue # <<>>
  /\ NumPending = 0

TakesAt(count) ==
  \E i \in Ids : shiftedAt[i] = -1 /\ shiftedAt'[i] = count

\* C4 as stated: when an instruction is taken with attempt count
\* maxInstructionCount - 1, restorePreviousLocation is invoked before any
\* further pipeline run, and the attempt that follows runs that instruction
\* through the pipeline.
RestoreThenFinalRun ==
  /\ [][TakesAt(maxInstructionCount - 1)
          => "restore" \in Range(effects') /\ RunsInProgress' = 0]_vars
  /\ [](\A p \in Frames :
          /\ p[2] > 1
          /\ FrameAt(<<p[1], p[2] - 1>>).pc = "tail"
          /\ FrameAt(p).pc = "run"
          => FrameAt(p).id = FrameAt(<<p[1], p[2] - 1>>).id)

\* the navigation has thrown 'Maximum navigation attempts exceeded' and the
\* error is on its way up the awaiting invocations
Exhausted(c) == chains[c].ret.kind = "throw"

\* C5 as stated: the error of an exhausted navigation is raised uncaught, it
\* is never turned into a result, and the navigation starts no further
\* attempt and no further pipeline run.
ExhaustionIsFatal ==
  /\ []("catch" \notin Range(effects))
  /\ [][\A c \in DOMAIN chains :
          Exhausted(c) /\ c \in DOMAIN chains'
            => /\ chains'[c].navRuns = chains[c].navRuns
               /\ Len(chains'[c].frames) <= Len(chains[c].frames)]_vars

Expected(use) ==
  <<"buildPlan">> \o (IF use THEN <<"canDeactivate">> ELSE <<>>)
    \o <<"loadRoute">> \o slots["authorize"] \o <<"canActivate">>
    \o slots["preActivate"] \o <<"deactivate", "activate">>
    \o slots["preRender"] \o <<"commit">> \o slots["postRender"]

\* C6: a pipeline is created with the steps build-plan, can-deactivate,
\* load-route, authorize slot, can-activate, preActivate slot, deactivate,
\* activate, preRender slot, commit-changes, postRender slot, in that order,
\* can-deactivate being left out exactly when couldDeactivate is true; a
\* registration appends to its slot and leaves the other slots alone, and the
\* steps of a run are invoked in the order of the pipeline.
FixedStepOrder ==
  /\ [][chains = <<>> /\ chains' # <<>>
          => Top(chains'[1]).steps = Expected(~couldDeactivate)]_vars
  /\ [][\A n \in SlotNames :
          Len(slots'[n]) > Len(slots[n])
            => /\ SubSeq(slots'[n], 1, Len(slots[n])) = slots[n]
               /\ \A m \in SlotNames \ {n} : slots'[m] = slots[m]]_vars
  /\ [](\A p \in Frames :
          FrameAt(p).pc \in {"run", "result"}
            => /\ FrameAt(p).steps \in {Expected(TRUE), Expected(FALSE)}
               /\ FrameAt(p).trace = [k \in 1..FrameAt(p).idx |-> k])

\* a run in a pipeline without can-deactivate that holds two registered steps
\* in one slot, in the order of their registration, has reached its last step
FixedStepOrderWitness ==
  /\ slots["authorize"] = <<"s2", "s1">>
  /\ \E p \in Frames :
       /\ FrameAt(p).steps =
            <<"buildPlan", "loadRoute", "s2", "s1", "canActivate",
              "deactivate", "activate", "commit">>
       /\ FrameAt(p).idx = 8

StatusOf(kind) ==
  CASE kind = "cancel" -> "canceled"
    [] kind = "reject" -> "rejected"
    [] kind = "complete" -> "completed"

\* C7: the steps of a run are invoked one after the other, a step only after
\* the step before it has called next(); a run all of whose steps call next()
\* is completed; after next.cancel, next.reject or next.complete no later step
\* is invoked and the outcome has that status and that output.
RunSequencing ==
  \A p \in Frames :
    LET f == FrameAt(p) IN
    /\ f.pc \in {"run", "result"} => f.trace = [k \in 1..f.idx |-> k]
    /\ f.pc = "run" => f.last.kind = IF f.idx = 1 THEN "" ELSE "next"
    /\ f.pc = "result" /\ f.last.kind = "next"
         => f.idx = Len(f.steps) /\ f.own.status = "completed"
    /\ f.pc = "result" /\ f.last.kind \in {"cancel", "reject", "complete"}
         => /\ f.own.status = StatusOf(f.last.kind)
            /\ f.own.out = f.last.out
            /\ Len(f.trace) = f.idx

\* a registered step has called next.reject with a value and steps remain
RunSequencingWitness ==
  \E p \in Frames :
    /\ FrameAt(p).pc = "result"
    /\ FrameAt(p).last = Beh("reject", "Value", "")
    /\ FrameAt(p).own.status = "rejected"
    /\ 1 < FrameAt(p).idx /\ FrameAt(p).idx < Len(FrameAt(p).steps)

\* C8: a step that throws synchronously settles the run: the outcome has
\* status rejected (so completed is false), its output is the thrown value,
\* and no later step is invoked.
ThrowIsRejected ==
  \A p \in Frames :
    FrameAt(p).last.kind = "throw"
      => /\ FrameAt(p).pc = "result"
         /\ FrameAt(p).own.status = "rejected"
         /\ FrameAt(p).own.out = FrameAt(p).last.out
         /\ Len(FrameAt(p).trace) = FrameAt(p).idx

\* a registered step has thrown a value that is not an Error, steps remain
ThrowIsRejectedWitness ==
  \E p \in Frames :
    /\ FrameAt(p).pc = "result"
    /\ FrameAt(p).last = Beh("throw", "Value", "")
    /\ FrameAt(p).own.out = "Value"
    /\ FrameAt(p).idx < Len(FrameAt(p).steps)

\* the run has ended in a step in front of the deactivate step
EndedBeforeDeactivate(f) ==
  /\ f.pc = "result"
  /\ \E k \in DOMAIN f.steps : f.steps[k] = "deactivate" /\ f.idx < k

\* C10: a run that ends canceled or rejected in a step in front of the
\* deactivate step has invoked no deactivate and no activate callback and no
\* process or swap of a view port, and currentInstruction of every router is
\* what it was when the run began.
PointOfNoReturn ==
  \A p \in Frames :
    /\ EndedBeforeDeactivate(FrameAt(p))
    /\ FrameAt(p).own.status \in {"canceled", "rejected"}
    => /\ FrameAt(p).called \cap {"deactivate", "activate", "process", "swap"} = {}
       /\ currentInstruction = FrameAt(p).before

\* on a router that has committed a navigation, a run is denied by
\* canActivate after its route was loaded
PointOfNoReturnWitness ==
  \E p \in Frames :
    /\ EndedBeforeDeactivate(FrameAt(p))
    /\ FrameAt(p).steps[FrameAt(p).idx] = "canActivate"
    /\ FrameAt(p).own.status = "canceled"
    /\ FrameAt(p).before["app"] # 0
    /\ currentInstruction["child"] # 0

(***************************************************************************)
(* The lifecycle steps: processDeactivatable and processActivatable        *)
(***************************************************************************)
\* components of a plan tree, over all nesting levels
MaxNodes == 3

Strategies == {"no-change", "invoke-lifecycle", "replace"}
\* the callbackName of CanDeactivatePreviousStep, CanActivateNextStep,
\* DeactivatePreviousStep and ActivateNextStep
CallbackNames == {"canDeactivate", "canActivate", "deactivate", "activate"}
\* the steps that go through processDeactivatable
Deactivating(name) == name \in {"canDeactivate", "deactivate"}
\* a step that never cancels on a result
IgnoreResultNever(name) == FALSE
\* DeactivatePreviousStep and ActivateNextStep pass ignoreResult = true
IgnoreResult(name) == name \in {"deactivate", "activate"}

RECURSIVE PlansOfSize(_)
\* the plans with n view port plans in all: a plan is the sequence of its view
\* port plans (in key order); a view port plan has a strategy, a component
\* whose view model has the callback or not, and the plan of its child
\* navigation instruction (the view ports of its child router)
PlansOfSize(n) ==
  IF n = 0 THEN {<<>>}
  ELSE UNION {LET below == PlansOfSize(k)
                  beside == PlansOfSize(n - 1 - k)
              IN {<<[strategy |-> st, has |-> h, kids |-> kids]>> \o rest :
                    st \in Strategies, h \in BOOLEAN,
                    kids \in below, rest \in beside} :
              k \in 0..(n - 1)}
Plans == UNION {PlansOfSize(n) : n \in 0..MaxNodes}

\* a component is named by its path: the view port index at every level
Listed(yes, path) == IF yes THEN <<path>> ELSE <<>>

RECURSIVE AddPreviousDeactivatable(_, _, _)
\* addPreviousDeactivatable(component): the view models of the child router's
\* current instruction, each followed by its own descendants; kids are the
\* view ports from k on of the component at path
AddPreviousDeactivatable(kids, path, k) ==
  IF k > Len(kids) THEN <<>>
  ELSE Listed(kids[k].has, path \o <<k>>)
         \o AddPreviousDeactivatable(kids[k].kids, path \o <<k>>, 1)
         \o AddPreviousDeactivatable(kids, path, k + 1)

RECURSIVE FindDeactivatable(_, _, _)
\* findDeactivatable(plan, callbackName), from view port k on
FindDeactivatable(plan, path, k) ==
  IF k > Len(plan) THEN <<>>
  ELSE LET vp == plan[k]
           here == path \o <<k>>
       IN Listed(vp.strategy \in {"invoke-lifecycle", "replace"} /\ vp.has, here)
            \o (IF vp.strategy = "replace"
                THEN AddPreviousDeactivatable(vp.kids, here, 1)
                ELSE FindDeactivatable(vp.kids, here, 1))
            \o FindDeactivatable(plan, path, k + 1)

RECURSIVE FindActivatable(_, _, _)
\* findActivatable(navigationInstruction, callbackName), from view port k on
FindActivatable(plan, path, k) ==
  IF k > Len(plan) THEN <<>>
  ELSE LET vp == plan[k]
           here == path \o <<k>>
       IN Listed(vp.strategy \in {"invoke-lifecycle", "replace"} /\ vp.has, here)
            \o FindActivatable(vp.kids, here, 1)
            \o FindActivatable(plan, path, k + 1)

Reverse(seq) == [k \in 1..Len(seq) |-> seq[Len(seq) + 1 - k]]
\* an iteration from the first entry to the last
DeactivationOrderForward(infos) == infos
\* processDeactivatable: let i = infos.length; if (i--) infos[i]
DeactivationOrder(infos) == Reverse(infos)
\* an iteration from the last entry to the first
ActivationOrderBackward(infos) == Reverse(infos)
\* processActivatable: let i = -1; i++; if (i < length) infos[i]
ActivationOrder(infos) == infos

\* the callbacks of the step, in the order in which it invokes them
Order(name, plan) ==
  IF Deactivating(name) THEN DeactivationOrder(FindDeactivatable(plan, <<>>, 1))
  ELSE ActivationOrder(FindActivatable(plan, <<>>, 1))

\* the router argument of shouldContinue for the callback at path:
\* processDeactivatable passes none, findActivatable passes the child router
\* of the component above (none at the top level); <<>> stands for undefined
RouterOf(name, path) ==
  IF Deactivating(name) THEN <<>> ELSE SubSeq(path, 1, Len(path) - 1)
\* no setRouter call was made
NotSet == <<0>>

\* what a callback hands back: an Error value, a Redirect (a navigation
\* command with shouldContinueProcessing false), a navigation command with
\* shouldContinueProcessing true, undefined, another truthy or falsy value
Results == {"Error", "Redirect", "Proceeding", "undefined", "truthy", "falsy"}
\* the three shapes processPotential tells apart
Forms == {"sync", "promise", "observable"}
\* a callback returns a result in one of the forms, throws, returns a promise
\* that rejects or an observable that errors
CallbackBehaviours ==
  {[form |-> f, value |-> v] : f \in Forms, v \in Results}
    \cup {[form |-> f, value |-> "Error"] : f \in {"throw", "reject", "error"}}
NoCall == [form |-> "", value |-> ""]

IsNavigationCommand(obj) == obj \in {"Redirect", "Proceeding"}
ShouldContinueProcessing(cmd) == cmd = "Proceeding"
\* JavaScript truthiness; an observable is an object
Truthy(v) == v \in {"Error", "Redirect", "Proceeding", "truthy", "Observable"}

\* a decision that takes an Error value like any other object
ShouldContinueByTruthiness(output, r) ==
  IF IsNavigationCommand(output)
  THEN [allow |-> ShouldContinueProcessing(output), router |-> r]
  ELSE IF output = "undefined" THEN [allow |-> TRUE, router |-> NotSet]
  ELSE [allow |-> Truthy(output), router |-> NotSet]
\* shouldContinue(output, router): the decision, and the router handed to the
\* command's setRouter
ShouldContinue(output, r) ==
  IF output = "Error" THEN [allow |-> FALSE, router |-> NotSet]
  ELSE IF IsNavigationCommand(output)
  THEN [allow |-> ShouldContinueProcessing(output), router |-> r]
  ELSE IF output = "undefined" THEN [allow |-> TRUE, router |-> NotSet]
  ELSE [allow |-> Truthy(output), router |-> NotSet]

\* a step in progress: the callbacks in the order of their invocation, those
\* invoked so far, what the last one did, the outcome of the step, the router
\* last set on a command, the callbacks that handed back a navigation command
\* (plainly or through a promise) and those whose command was navigated
StartLifecycle(name, order) ==
  [pc |-> "iterate", name |-> name, order |-> order, invoked |-> <<>>,
   last |-> NoCall, status |-> "", out |-> "", routerSet |-> NotSet,
   commands |-> {}, navigated |-> {}]

\* an end of the step with next.reject(val)
CancelAsReject(lc, val) ==
  [lc EXCEPT !.pc = "ended", !.status = "rejected", !.out = val]
\* next.cancel(val): the run settles canceled with val as output
Cancel(lc, val) ==
  [lc EXCEPT !.pc = "ended", !.status = "canceled", !.out = val]

\* an inspection that lets every result through
InspectAllowing(lc, val) == [lc EXCEPT !.pc = "iterate"]
\* inspect(val): ignoreResult || shouldContinue(val, router) ? iterate()
\* : next.cancel(val)
Inspect(lc, val) ==
  LET path == lc.invoked[Len(lc.invoked)]
      d == ShouldContinue(val, RouterOf(lc.name, path))
      seen == [lc EXCEPT !.routerSet = d.router]
  IN IF IgnoreResult(lc.name) THEN [lc EXCEPT !.pc = "iterate"]
     ELSE IF d.allow THEN [seen EXCEPT !.pc = "iterate"]
     ELSE Cancel(seen, val)

\* processPotential, the observable branch: next() and complete() call
\* resolve(obj), obj being the observable
Emitted(b) == "Observable"

\* the callback has been invoked and behaved as b
Invoked(lc, b) ==
  [lc EXCEPT !.invoked = Append(@, lc.order[Len(@) + 1]), !.last = b,
             !.routerSet = NotSet,
             !.commands = IF IsNavigationCommand(b.value)
                               /\ b.form \in {"sync", "promise"}
                          THEN @ \cup {lc.order[Len(lc.invoked) + 1]} ELSE @]

\* processPotential(result, inspect, next.cancel) up to the point where it
\* returns: a plain result is inspected at once, an exception of the callback
\* is caught and handed to next.cancel, a promise or an observable is awaited
ProcessPotential(lc, b) ==
  CASE b.form = "sync" -> Inspect(lc, b.value)
    [] b.form = "throw" -> Cancel(lc, b.value)
    [] OTHER -> [lc EXCEPT !.pc = "pending"]

\* the promise or the observable of the pending callback settles
Settled(lc) ==
  CASE lc.last.form = "promise" -> Inspect(lc, lc.last.value)
    [] lc.last.form = "observable" -> Inspect(lc, Emitted(lc.last))
    [] OTHER -> Cancel(lc, lc.last.value)

\* what a lifecycle step leaves alone
outsideStep == <<router, currentInstruction, nextId, chains, slots, planning>>

\* the pipeline reaches a lifecycle step: processDeactivatable or
\* processActivatable collects the callbacks of the instruction's plan
BeginLifecycle(name, plan) ==
  /\ lifecycle.pc = "idle"
  /\ lifecycle' = StartLifecycle(name, Order(name, plan))
  /\ UNCHANGED <<outsideStep, couldDeactivate>>

\* iterate(): the next callback is invoked and its result goes through
\* processPotential; behind the last callback the step calls next(),
\* processDeactivatable after setting router.couldDeactivate
Iterate ==
  /\ lifecycle.pc = "iterate"
  /\ IF Len(lifecycle.invoked) < Len(lifecycle.order)
     THEN /\ \E b \in CallbackBehaviours :
               lifecycle' = ProcessPotential(Invoked(lifecycle, b), b)
          /\ UNCHANGED <<couldDeactivate, consulted>>
     ELSE /\ lifecycle' = [lifecycle EXCEPT !.pc = "next"]
          /\ couldDeactivate' =
               IF Deactivating(lifecycle.name) THEN TRUE ELSE couldDeactivate
          /\ consulted' =
               IF lifecycle.name = "canDeactivate"
               THEN consulted \cup {currentInstruction["app"]}
               ELSE consulted
  /\ UNCHANGED <<queue, isActive, isNavigating, previousLocation,
                 fallbackRoute, routes, loads, loadCount, pending, effects, runs,
                 superseded, fragment, resolved, shiftedAt, direction,
                 currentInstruction, nextId, chains, slots, planning>>

\* the promise resolves or rejects, the observable emits, completes or errors
Settles ==
  /\ lifecycle.pc = "pending"
  /\ lifecycle' = Settled(lifecycle)
  /\ UNCHANGED <<outsideStep, couldDeactivate>>

\* the run, settled by next.cancel(val), reaches processResult: a navigation
\* command in result.output is navigated
ProcessCanceled ==
  /\ lifecycle.pc = "ended"
  /\ lifecycle' =
       [lifecycle EXCEPT
          !.pc = "done",
          !.navigated = IF IsNavigationCommand(lifecycle.out)
                        THEN {lifecycle.invoked[Len(lifecycle.invoked)]}
                        ELSE {}]
  /\ UNCHANGED <<outsideStep, couldDeactivate>>

\* next(): the run goes on with the steps behind this one; the results the
\* callbacks handed back are not kept anywhere
GoOn ==
  /\ lifecycle.pc = "next"
  /\ lifecycle' = [lifecycle EXCEPT !.pc = "done"]
  /\ UNCHANGED <<outsideStep, couldDeactivate>>

NextLifecycle ==
  \/ /\ lifecycle.pc = "idle"
     /\ \E name \in CallbackNames, plan \in Plans : BeginLifecycle(name, plan)
  \/ Iterate
  \/ Settles
  \/ ProcessCanceled
  \/ GoOn

SpecLifecycle == Init /\ [][NextLifecycle]_vars

(***************************************************************************)
(* Properties of the lifecycle steps (checked under SpecLifecycle)         *)
(***************************************************************************)
\* a can-deactivate or can-activate step is in progress or over
CanStep ==
  lifecycle.pc # "idle" /\ lifecycle.name \in {"canDeactivate", "canActivate"}
\* the last callback handed back, plainly or through a promise, a value that
\* denies: an Error, a command that stops the processing, a falsy value
Denied ==
  /\ lifecycle.pc # "pending"
  /\ lifecycle.last.form \in {"sync", "promise"}
  /\ lifecycle.last.value \in {"Error", "Redirect", "falsy"}

EndedByStep == lifecycle.pc # "idle" /\ lifecycle.status # ""
ActivationFamily == {"canActivate", "activate"}

Allows(v) ==
  CASE v = "Error" -> FALSE
    [] v = "Redirect" -> FALSE
    [] v = "Proceeding" -> TRUE
    [] v = "undefined" -> TRUE
    [] v = "truthy" -> TRUE
    [] v = "falsy" -> FALSE
\* the last callback's outcome, handed back plainly or through a promise, has
\* been decided
DecidedValue ==
  /\ CanStep
  /\ lifecycle.pc # "pending"
  /\ lifecycle.last.form \in {"sync", "promise"}

SameDecisionInEveryForm ==
  /\ [](CanStep /\ lifecycle.pc # "pending" /\ lifecycle.last.form \in Forms
          => (lifecycle.status = "" <=> Allows(lifecycle.last.value)))
  /\ [][CanStep /\ lifecycle.pc = "pending"
          => lifecycle'.invoked = lifecycle.invoked]_vars

\* C15 as stated: once the run has left a can-deactivate or can-activate
\* step and its outcome has been processed, the navigate operation of every
\* navigation command a callback of the step handed back has been invoked,
\* whether the command stopped the processing or let it continue.
CommandsAreNavigated ==
  CanStep /\ lifecycle.pc = "done"
    => lifecycle.commands \subseteq lifecycle.navigated

\* a deactivate or activate step is in progress or over
IgnoringStep ==
  lifecycle.pc # "idle" /\ lifecycle.name \in {"deactivate", "activate"}

IsAncestor(a, d) == Len(a) < Len(d) /\ SubSeq(d, 1, Len(a)) = a
\* the callbacks invoked before the j-th
InvokedBefore(j) == {lifecycle.invoked[m] : m \in 1..(j - 1)}

\* C17: in the can-deactivate and deactivate steps the callback of a
\* component is invoked only after the callbacks of all the components below
\* it that the step collected.
InsideOut ==
  lifecycle.pc # "idle" /\ lifecycle.name \in {"canDeactivate", "deactivate"}
    => \A j \in DOMAIN lifecycle.invoked :
         /\ \A m \in DOMAIN lifecycle.order :
              IsAncestor(lifecycle.invoked[j], lifecycle.order[m])
                => lifecycle.order[m] \in InvokedBefore(j)
         /\ \A d \in InvokedBefore(j) :
              ~IsAncestor(d, lifecycle.invoked[j])

\* over the plan of two view ports, the first with a nested component, the
\* deactivate step has invoked the second, then the nested one, then its host
InsideOutWitness ==
  /\ lifecycle.pc = "next"
  /\ lifecycle.name = "deactivate"
  /\ lifecycle.invoked = <<<<2>>, <<1, 1>>, <<1>>>>

\* C18: in the can-activate and activate steps the callback of a slot's
\* component is invoked before the callbacks of all the components of its
\* nested child instruction.
TopDown ==
  lifecycle.pc # "idle" /\ lifecycle.name \in {"canActivate", "activate"}
    => \A j \in DOMAIN lifecycle.invoked :
         /\ \A m \in DOMAIN lifecycle.order :
              IsAncestor(lifecycle.order[m], lifecycle.invoked[j])
                => lifecycle.order[m] \in InvokedBefore(j)
         /\ \A d \in InvokedBefore(j) :
              ~IsAncestor(lifecycle.invoked[j], d)

\* over the same plan the can-activate step has invoked the host, then the
\* nested component, then the second view port's
TopDownWitness ==
  /\ lifecycle.pc = "next"
  /\ lifecycle.name = "canActivate"
  /\ lifecycle.invoked = <<<<1>>, <<1, 1>>, <<2>>>>

----------------------------------------------------------------------------
\* BuildNavigationPlanStep: _buildNavigationPlan over an instruction and the
\* nested instructions of its child routers

\* nesting levels of routers that a plan is built for
MaxLevels == 2

\* the view ports of a router, in the order the plan loop visits them
ViewPortNames == <<"default", "side">>
\* the module ids a view port instruction can name, "null" for none, and the
\* classes a viewModel factory can resolve to, "invalid" for what is neither
\* a function nor null
ModuleIds == {"a", "b", "null"}
ViewModels == {"A", "B", "invalid"}
\* names and values of route and query parameters; "absent" is a key that the
\* parameter object does not have
ParamKeys == {"id", "childRoute"}
QueryKeys == {"q"}
ParamValues == {"absent", "1", "2"}
QueryValues == {"absent", "1"}
WildCardName == "childRoute"
Params == [ParamKeys -> ParamValues]
QueryParams == [QueryKeys -> QueryValues]
\* "" is a route config without activationStrategy, a view model without
\* determineActivationStrategy
NoStrategy == ""
\* a router without a default for the view port
NoDefault == "none"

\* a view port instruction or view port config: it names its component by a
\* moduleId, by a viewModel factory (target is what the factory resolves to),
\* or by neither
ViewPortConfigs ==
  {[has |-> "moduleId", target |-> t] : t \in ModuleIds}
    \cup {[has |-> "viewModel", target |-> t] : t \in ViewModels}
    \cup {[has |-> "neither", target |-> "null"]}
Thrown == "throw"

\* resolveViewModel
ResolveViewModel(viewPortInstruction) ==
  IF viewPortInstruction.has = "moduleId" THEN viewPortInstruction.target
  ELSE IF viewPortInstruction.has = "viewModel"
    THEN IF viewPortInstruction.target = "invalid"
           THEN Thrown ELSE viewPortInstruction.target
  ELSE Thrown

\* the keys of a parameter object
KeysOf(params) == {key \in DOMAIN params : params[key] # "absent"}

\* hasDifferentParameterValues, comparing the query parameters always
HasDifferentParameterValuesAndQuery(prev, next) ==
  LET nextWildCardName ==
        IF next.hasChildRouter THEN WildCardName ELSE "null"
  IN \/ \E key \in KeysOf(next.params) \cup KeysOf(prev.params) :
          key # nextWildCardName /\ prev.params[key] # next.params[key]
     \/ \E key \in KeysOf(next.queryParams) \cup KeysOf(prev.queryParams) :
          prev.queryParams[key] # next.queryParams[key]

\* hasDifferentParameterValues
HasDifferentParameterValues(prev, next) ==
  LET nextWildCardName ==
        IF next.hasChildRouter THEN WildCardName ELSE "null"
      Differs(keys, prevOf, nextOf) ==
        \E key \in keys :
          key # nextWildCardName /\ prevOf[key] # nextOf[key]
  IN IF Differs(KeysOf(next.params), prev.params, next.params) THEN TRUE
     ELSE IF Differs(KeysOf(prev.params), prev.params, next.params) THEN TRUE
     ELSE IF ~next.compareQueryParams THEN FALSE
     ELSE \/ \E key \in KeysOf(next.queryParams) :
               prev.queryParams[key] # next.queryParams[key]
          \/ \E key \in KeysOf(prev.queryParams) :
               prev.queryParams[key] # next.queryParams[key]

\* the view port config the plan compares with the previous instruction: the
\* route config's entry for the view port or else the previous instruction
\* itself, and the router's default in place of a null moduleId
NextViewPortConfig(prevViewPortInstruction, inConfig, config, defaults) ==
  LET nextViewPortConfig ==
        IF inConfig THEN config ELSE prevViewPortInstruction
  IN IF /\ nextViewPortConfig.has = "moduleId"
        /\ nextViewPortConfig.target = "null"
        /\ defaults # NoDefault
       THEN [has |-> "moduleId", target |-> defaults]
       ELSE nextViewPortConfig

\* the strategy chain of the plan loop, asking the view model first
StrategyCallbackFirst(prevViewModelTarget, nextViewModelTarget, determine, configStrategy, hasNewParams, forceLifecycleMinimum) ==
  IF determine # NoStrategy THEN determine
  ELSE IF prevViewModelTarget # nextViewModelTarget THEN "replace"
  ELSE IF configStrategy # NoStrategy THEN configStrategy
  ELSE IF hasNewParams \/ forceLifecycleMinimum THEN "invoke-lifecycle"
  ELSE "no-change"

\* the strategy chain of the plan loop, asking the route config before the
\* view model
StrategyConfigFirst(prevViewModelTarget, nextViewModelTarget, determine, configStrategy, hasNewParams, forceLifecycleMinimum) ==
  IF prevViewModelTarget # nextViewModelTarget THEN "replace"
  ELSE IF configStrategy # NoStrategy THEN configStrategy
  ELSE IF determine # NoStrategy THEN determine
  ELSE IF hasNewParams \/ forceLifecycleMinimum THEN "invoke-lifecycle"
  ELSE "no-change"

\* the strategy chain of the plan loop, without its parameter test
StrategyWithoutParams(prevViewModelTarget, nextViewModelTarget, determine, configStrategy, hasNewParams, forceLifecycleMinimum) ==
  IF prevViewModelTarget # nextViewModelTarget THEN "replace"
  ELSE IF determine # NoStrategy THEN determine
  ELSE IF configStrategy # NoStrategy THEN configStrategy
  ELSE "no-change"

\* the strategy chain of the plan loop, without forceLifecycleMinimum
StrategyUnforced(prevViewModelTarget, nextViewModelTarget, determine, configStrategy, hasNewParams, forceLifecycleMinimum) ==
  IF prevViewModelTarget # nextViewModelTarget THEN "replace"
  ELSE IF determine # NoStrategy THEN determine
  ELSE IF configStrategy # NoStrategy THEN configStrategy
  ELSE IF hasNewParams THEN "invoke-lifecycle"
  ELSE "no-change"

\* the strategy chain of the plan loop: determine is what the previous view
\* model's determineActivationStrategy returns, configStrategy the route
\* config's activationStrategy
Strategy(prevViewModelTarget, nextViewModelTarget, determine, configStrategy, hasNewParams, forceLifecycleMinimum) ==
  IF prevViewModelTarget # nextViewModelTarget THEN "replace"
  ELSE IF determine # NoStrategy THEN determine
  ELSE IF configStrategy # NoStrategy THEN configStrategy
  ELSE IF hasNewParams \/ forceLifecycleMinimum THEN "invoke-lifecycle"
  ELSE "no-change"

\* the navigation instructions a plan is asked for: one whose route config
\* redirects, one without previous instruction (count view ports in its
\* config), one with a previous instruction of count view port instructions
PlanInstructions ==
  {[kind |-> "redirect"]}
    \cup {[kind |-> "first", count |-> n] : n \in 0..Len(ViewPortNames)}
    \cup [kind : {"diff"}, count : 0..Len(ViewPortNames),
          activationStrategy : {NoStrategy} \cup Strategies,
          prev : [params : Params, queryParams : QueryParams],
          next : [params : Params, queryParams : QueryParams,
                  hasChildRouter : BOOLEAN, compareQueryParams : BOOLEAN]]

\* what the plan loop reads of one view port: the previous view port
\* instruction, its view model's determineActivationStrategy, its child
\* router, the route config's entry for the view port and the router's
\* default for it
PlanViewPorts ==
  [prev : ViewPortConfigs, determine : {NoStrategy} \cup Strategies,
   childRouter : BOOLEAN, inConfig : {TRUE}, config : ViewPortConfigs,
   defaults : {NoDefault}]
    \cup [prev : ViewPortConfigs, determine : {NoStrategy} \cup Strategies,
          childRouter : BOOLEAN, inConfig : {TRUE},
          config : {[has |-> "moduleId", target |-> "null"]},
          defaults : {"a"}]
    \cup [prev : ViewPortConfigs, determine : {NoStrategy} \cup Strategies,
          childRouter : BOOLEAN, inConfig : {FALSE},
          config : {[has |-> "neither", target |-> "null"]},
          defaults : {NoDefault}]

NoViewPortPlan == [name |-> ""]
Redirected == "Redirect"

\* the call _buildNavigationPlan returns its plans, or (result other than "")
\* returns a Redirect or rejects. At the top BuildNavigationPlanStep.run goes
\* on; below it the task of the calling plan settles, and a task that rejects
\* rejects the caller's Promise.all and so the caller
RECURSIVE Returns(_, _, _)
Returns(callers, result, plans) ==
  IF callers = <<>>
    THEN IF result \in {Redirected, Thrown}
           THEN [pc |-> "canceled", output |-> result]
           ELSE [pc |-> "next", plan |-> plans]
    ELSE IF result \in {Redirected, Thrown}
      THEN Returns(Tail(callers), result, <<>>)
      ELSE LET caller == Head(callers)
           IN [pc |-> "await", level |-> caller.level,
               viewPortPlans |-> caller.viewPortPlans,
               pending |-> caller.pending, changed |-> caller.changed,
               callers |-> Tail(callers)]

\* _buildNavigationPlan(instruction, forceLifecycleMinimum) up to its loop.
\* changedAbove is history the code does not keep: whether the instruction of
\* an enclosing call had new parameters.
BuildNavigationPlan(instruction, forceLifecycleMinimum, level, callers, changedAbove) ==
  IF instruction.kind = "redirect" THEN Returns(callers, Redirected, <<>>)
  ELSE IF instruction.kind = "first"
    THEN Returns(callers, "",
                 [k \in 1..instruction.count |-> "replace"])
  ELSE [pc |-> "loop", level |-> level,
        forceLifecycleMinimum |-> forceLifecycleMinimum,
        activationStrategy |-> instruction.activationStrategy,
        hasNewParams |->
          HasDifferentParameterValues(instruction.prev, instruction.next),
        ports |-> instruction.count, viewPortPlans |-> <<>>,
        viewPortPlan |-> NoViewPortPlan, pending |-> {},
        callers |-> callers, changedAbove |-> changedAbove]

outsidePlan == <<router, currentInstruction, nextId, chains, slots,
                 lifecycle, couldDeactivate>>

\* BuildNavigationPlanStep.run
BuildNavigationPlanStep(instruction) ==
  /\ planning.pc = "idle"
  /\ planning' = BuildNavigationPlan(instruction, FALSE, 1, <<>>, FALSE)
  /\ UNCHANGED outsidePlan

\* one turn of the loop over prev.viewPortInstructions. Of the view port plan
\* it writes the model keeps the name, the strategy, whether the two resolved
\* view models differ, and the previous component's
\* determineActivationStrategy.
PlanViewPort(vp) ==
  /\ planning.pc = "loop"
  /\ Len(planning.viewPortPlans) < planning.ports
  /\ vp.childRouter => planning.level < MaxLevels
  /\ LET k == Len(planning.viewPortPlans) + 1
         nextViewPortConfig ==
           NextViewPortConfig(vp.prev, vp.inConfig, vp.config, vp.defaults)
         prevViewModelTarget == ResolveViewModel(vp.prev)
         nextViewModelTarget == ResolveViewModel(nextViewPortConfig)
         strategy ==
           Strategy(prevViewModelTarget, nextViewModelTarget, vp.determine,
                    planning.activationStrategy, planning.hasNewParams,
                    planning.forceLifecycleMinimum)
     IN IF Thrown \in {prevViewModelTarget, nextViewModelTarget}
          THEN planning' = Returns(planning.callers, Thrown, <<>>)
          ELSE planning' =
                 [planning EXCEPT
                    !.viewPortPlans = Append(@, strategy),
                    !.viewPortPlan =
                      [name |-> ViewPortNames[k], strategy |-> strategy,
                       replaced |-> prevViewModelTarget # nextViewModelTarget,
                       prevComponent |-> vp.determine],
                    !.pending =
                      IF strategy # "replace" /\ vp.childRouter
                        THEN @ \cup {k} ELSE @]
  /\ UNCHANGED outsidePlan

\* behind the loop: await Promise.all(pending)
AwaitPending ==
  /\ planning.pc = "loop"
  /\ Len(planning.viewPortPlans) = planning.ports
  /\ planning' = [pc |-> "await", level |-> planning.level,
                  viewPortPlans |-> planning.viewPortPlans,
                  pending |-> planning.pending,
                  changed |-> planning.hasNewParams \/ planning.changedAbove,
                  callers |-> planning.callers]
  /\ UNCHANGED outsidePlan

\* the task of a view port with a child router: the child router's
\* instruction is planned, forced to invoke-lifecycle at least when this view
\* port's strategy is invoke-lifecycle
PlanChild(k, childNavInstruction) ==
  /\ planning.pc = "await"
  /\ k \in planning.pending
  /\ planning' =
       BuildNavigationPlan(
         childNavInstruction,
         planning.viewPortPlans[k] = "invoke-lifecycle",
         planning.level + 1,
         <<[level |-> planning.level,
            viewPortPlans |-> planning.viewPortPlans,
            pending |-> planning.pending \ {k},
            changed |-> planning.changed]>> \o planning.callers,
         planning.changed)
  /\ UNCHANGED outsidePlan

\* every task has settled: the plan is returned
PlanSettles ==
  /\ planning.pc = "await"
  /\ planning.pending = {}
  /\ planning' =
       Returns(planning.callers, "", planning.viewPortPlans)
  /\ UNCHANGED outsidePlan

NextPlan ==
  \/ /\ planning.pc = "idle"
     /\ \E instruction \in PlanInstructions :
          BuildNavigationPlanStep(instruction)
  \/ /\ planning.pc = "loop"
     /\ \E vp \in PlanViewPorts : PlanViewPort(vp)
  \/ AwaitPending
  \/ /\ planning.pc = "await"
     /\ \E k \in planning.pending, childNavInstruction \in PlanInstructions :
          PlanChild(k, childNavInstruction)
  \/ PlanSettles

SpecPlan == Init /\ [][NextPlan]_vars

\* the plan loop has just written the plan of a view port
Planned == planning.pc = "loop" /\ planning.viewPortPlan.name # ""

\* C19: a view port whose previous and next view models resolve to different
\* identities is planned with the strategy replace, whatever the view model's
\* determineActivationStrategy, the route config's activationStrategy, the
\* parameters and forceLifecycleMinimum are.
DifferenceReplaces ==
  Planned /\ planning.viewPortPlan.replaced
    => planning.viewPortPlan.strategy = "replace"

\* in a nested instruction with new parameters, forced to invoke-lifecycle at
\* least and configured for invoke-lifecycle, a view port whose view model
\* asks for no-change but resolves to another identity is replaced
DifferenceReplacesWitness ==
  /\ Planned
  /\ planning.level = 2
  /\ planning.viewPortPlan.name = "side"
  /\ planning.viewPortPlan.replaced
  /\ planning.viewPortPlan.prevComponent = "no-change"
  /\ planning.activationStrategy = "invoke-lifecycle"
  /\ planning.hasNewParams
  /\ planning.forceLifecycleMinimum
  /\ planning.viewPortPlan.strategy = "replace"

\* a view port with equal identities, of an instruction without new
\* parameters below instructions without new parameters, without
\* determineActivationStrategy and without activationStrategy in the config
Untouched ==
  /\ Planned
  /\ ~planning.viewPortPlan.replaced
  /\ ~planning.hasNewParams
  /\ ~planning.changedAbove
  /\ planning.viewPortPlan.prevComponent = NoStrategy
  /\ planning.activationStrategy = NoStrategy

\* C20 as stated: with equal identities, no changed parameter, no strategy
\* callback and no configured strategy the strategy is no-change at every
\* nesting level.
UntouchedIsNoChange ==
  Untouched => planning.viewPortPlan.strategy = "no-change"

\* C20: with equal identities, no changed parameter, no strategy callback and
\* no configured strategy the strategy is no-change, unless the instruction
\* is a nested one whose view port in the enclosing plan has the strategy
\* invoke-lifecycle: then it is invoke-lifecycle. The top instruction is
\* never forced.
UntouchedIsNoChangeUnlessForced ==
  /\ Untouched
       => planning.viewPortPlan.strategy =
            IF planning.forceLifecycleMinimum
              THEN "invoke-lifecycle" ELSE "no-change"
  /\ planning.pc = "loop" /\ planning.level = 1
       => ~planning.forceLifecycleMinimum

\* a nested instruction that is not forced: its untouched second view port is
\* planned no-change
UntouchedIsNoChangeUnlessForcedWitness ==
  /\ Untouched
  /\ planning.level = 2
  /\ ~planning.forceLifecycleMinimum
  /\ planning.viewPortPlan.name = "side"
  /\ planning.viewPortPlan.strategy = "no-change"

\* C21: with equal identities the strategy is what the previous view model's
\* determineActivationStrategy returns if it has one, whatever the route
\* config and the parameters say; else the route config's activationStrategy
\* if it has one, whatever the parameters say; else invoke-lifecycle if the
\* parameters changed.
StrictPriority ==
  Planned /\ ~planning.viewPortPlan.replaced
    => IF planning.viewPortPlan.prevComponent # NoStrategy
         THEN planning.viewPortPlan.strategy
                = planning.viewPortPlan.prevComponent
       ELSE IF planning.activationStrategy # NoStrategy
         THEN planning.viewPortPlan.strategy = planning.activationStrategy
       ELSE planning.hasNewParams
              => planning.viewPortPlan.strategy = "invoke-lifecycle"

\* the view model asks for no-change although the route config says replace
\* and the parameters changed
StrictPriorityWitness ==
  /\ Planned
  /\ ~planning.viewPortPlan.replaced
  /\ planning.viewPortPlan.prevComponent = "no-change"
  /\ planning.activationStrategy = "replace"
  /\ planning.hasNewParams
  /\ planning.viewPortPlan.strategy = "no-change"

----------------------------------------------------------------------------
\* the plan of a top instruction with a previous instruction of one view
\* port, with the parameters of both instructions kept

\* _buildNavigationPlan up to its loop: hasNewParams is computed
CompareParams(instruction) ==
  /\ planning.pc = "idle"
  /\ instruction.kind = "diff"
  /\ instruction.count = 1
  /\ planning' =
       [pc |-> "params", instruction |-> instruction,
        hasNewParams |->
          HasDifferentParameterValues(instruction.prev, instruction.next)]
  /\ UNCHANGED outsidePlan

\* the one turn of the loop, without child router, and the return to
\* BuildNavigationPlanStep.run
PlanSingle(vp) ==
  /\ planning.pc = "params"
  /\ ~vp.childRouter
  /\ LET nextViewPortConfig ==
           NextViewPortConfig(vp.prev, vp.inConfig, vp.config, vp.defaults)
         prevViewModelTarget == ResolveViewModel(vp.prev)
         nextViewModelTarget == ResolveViewModel(nextViewPortConfig)
         strategy ==
           Strategy(prevViewModelTarget, nextViewModelTarget, vp.determine,
                    planning.instruction.activationStrategy,
                    planning.hasNewParams, FALSE)
     IN IF Thrown \in {prevViewModelTarget, nextViewModelTarget}
          THEN planning' = [pc |-> "canceled", output |-> Thrown]
          ELSE planning' =
                 [pc |-> "planned", instruction |-> planning.instruction,
                  hasNewParams |-> planning.hasNewParams,
                  viewPortPlan |->
                    [name |-> ViewPortNames[1], strategy |-> strategy,
                     replaced |-> prevViewModelTarget # nextViewModelTarget,
                     prevComponent |-> vp.determine]]
  /\ UNCHANGED outsidePlan

\* the parameters of an instruction whose route redirects, and the query
\* strings of instructions
RouteParamKeys == {"x", "y"}
RouteParamValues == {"absent", "5", "6"}
QueryStrings == {"", "q=1"}
\* the parameters that recognizing config.redirect gives the new instruction:
\* a literal segment, or a segment that starts with a colon
TargetParamKeys == {"p", "r"}
AbsentValue == [colon |-> FALSE, text |-> "absent"]
TargetParamValues ==
  {AbsentValue, [colon |-> FALSE, text |-> "0"]}
    \cup {[colon |-> TRUE, text |-> name] : name \in RouteParamKeys \cup {"z"}}

\* instructions whose route config has a redirect to the route named target
RedirectInstructions ==
  [params : [RouteParamKeys -> RouteParamValues],
   queryString : QueryStrings,
   target : {"b"},
   newParams : [TargetParamKeys -> TargetParamValues]]

\* the loop over newInstruction.params, keeping a placeholder that the
\* instruction has no parameter for
LinkedParamsKeeping(instruction) ==
  [key \in TargetParamKeys |->
     LET val == instruction.newParams[key]
     IN IF val = AbsentValue THEN "absent"
        ELSE IF val.colon
          THEN IF val.text \in KeysOf(instruction.params)
                 THEN instruction.params[val.text]
                 ELSE val.text
        ELSE val.text]

\* the loop over newInstruction.params: a value that starts with a colon
\* names a parameter of the instruction and is replaced by it, or dropped
\* when the instruction has no such parameter; other values are kept
LinkedParams(instruction) ==
  [key \in TargetParamKeys |->
     LET val == instruction.newParams[key]
     IN IF val = AbsentValue THEN "absent"
        ELSE IF val.colon
          THEN IF val.text \in KeysOf(instruction.params)
                 THEN instruction.params[val.text]
                 ELSE "absent"
        ELSE val.text]

\* the redirect branch of _buildNavigationPlan: router.generate is kept as
\* the route name with the parameters it is given, the query string is
\* appended when the instruction has one
RedirectLocation(instruction) ==
  [route |-> instruction.target, params |-> LinkedParams(instruction),
   query |-> IF instruction.queryString # ""
               THEN instruction.queryString ELSE ""]

\* BuildNavigationPlanStep.run on an instruction whose route config has a
\* redirect: the plan is a Redirect and goes to next.cancel
PlanRedirect(instruction) ==
  /\ planning.pc = "idle"
  /\ planning' = [pc |-> "canceled", instruction |-> instruction,
                  output |-> [url |-> RedirectLocation(instruction)]]
  /\ UNCHANGED outsidePlan

NextParams ==
  \/ /\ planning.pc = "idle"
     /\ \E instruction \in PlanInstructions : CompareParams(instruction)
  \/ /\ planning.pc = "params"
     /\ \E vp \in PlanViewPorts : PlanSingle(vp)
  \/ /\ planning.pc = "idle"
     /\ \E instruction \in RedirectInstructions : PlanRedirect(instruction)

SpecParams == Init /\ [][NextParams]_vars

\* the planned instruction differs from the previous one in its query
\* parameters only, and nothing but the parameters decides the strategy
OnlyQueryDiffers ==
  /\ planning.pc = "planned"
  /\ planning.instruction.prev.params = planning.instruction.next.params
  /\ planning.instruction.prev.queryParams
       # planning.instruction.next.queryParams
  /\ ~planning.viewPortPlan.replaced
  /\ planning.viewPortPlan.prevComponent = NoStrategy
  /\ planning.instruction.activationStrategy = NoStrategy

\* C22: two instructions that differ only in their query parameters count as
\* changed, and give invoke-lifecycle, exactly when compareQueryParams is
\* set; without it they give no-change.
QueryIgnoredByDefault ==
  OnlyQueryDiffers
    => /\ planning.hasNewParams = planning.instruction.next.compareQueryParams
       /\ planning.viewPortPlan.strategy =
            IF planning.instruction.next.compareQueryParams
              THEN "invoke-lifecycle" ELSE "no-change"

\* compareQueryParams is not set, the query parameter q appears, and the view
\* port is planned no-change
QueryIgnoredByDefaultWitness ==
  /\ OnlyQueryDiffers
  /\ ~planning.instruction.next.compareQueryParams
  /\ planning.instruction.prev.queryParams["q"] = "absent"
  /\ planning.instruction.next.queryParams["q"] = "1"
  /\ planning.instruction.next.params["id"] = "1"
  /\ planning.viewPortPlan.strategy = "no-change"

\* the step has answered an instruction whose route redirects
RedirectPlanned ==
  planning.pc = "canceled" /\ "instruction" \in DOMAIN planning

\* C24: every parameter of the redirect target whose value is a ':name'
\* placeholder gets the instruction's value of name if the instruction has
\* that parameter and is dropped if not; a literal value is kept as it is.
ParameterLinking ==
  RedirectPlanned =>
    \A key \in TargetParamKeys :
      LET val == planning.instruction.newParams[key]
          to == planning.output.url.params[key]
      IN /\ val.colon /\ val.text \in KeysOf(planning.instruction.params)
              => to = planning.instruction.params[val.text]
         /\ val.colon /\ val.text \notin KeysOf(planning.instruction.params)
              => to = "absent"
         /\ ~val.colon => to = val.text

\* a/:x/:y redirecting to b/:y, navigating a/5/6, gives b/6: the instruction
\* has x = 5 and y = 6, the target's parameter p is ':y' (r does not exist)
ParameterLinkingWitness ==
  /\ RedirectPlanned
  /\ planning.instruction.params = [x |-> "5", y |-> "6"]
  /\ planning.instruction.newParams["p"] = [colon |-> TRUE, text |-> "y"]
  /\ planning.instruction.newParams["r"] = AbsentValue
  /\ planning.output.url.route = "b"
  /\ planning.output.url.params = [p |-> "6", r |-> "absent"]

----------------------------------------------------------------------------
\* BuildNavigationPlanStep and LoadRouteStep over an instruction and the
\* instructions of the child routers of its view ports, with the tasks of
\* Promise.all settling in any order

NoOutput == [kind |-> ""]
ErrorOutput == [kind |-> "Error"]
RedirectOutput(instruction) ==
  [kind |-> "Redirect", url |-> RedirectLocation(instruction)]

\* the instructions a child router creates for the wildcard path, whose query
\* string is the parent instruction's: one that is planned, one whose
\* planning or creation throws, one whose route redirects, one whose
\* redirect cannot be generated
ChildRedirects(queryString) ==
  {i \in RedirectInstructions :
     /\ i.queryString = queryString
     /\ i.params = [x |-> "5", y |-> "absent"]
     /\ i.newParams["r"] = AbsentValue
     /\ i.newParams["p"] \in {[colon |-> FALSE, text |-> "0"],
                              [colon |-> TRUE, text |-> "x"]}}
ChildInstructions(queryString) ==
  {[kind |-> "plain"], [kind |-> "throws"], [kind |-> "badRedirect"]}
    \cup {[kind |-> "redirect", instruction |-> i] :
            i \in ChildRedirects(queryString)}
NoChild == [kind |-> "none"]

\* what _buildNavigationPlan gives for a child instruction, with a Redirect
\* taken for a plan
PlanOfChildUnchecked(child) ==
  IF child.kind \in {"plain", "redirect"} THEN [kind |-> "plan"]
  ELSE ErrorOutput

\* what _buildNavigationPlan gives for a child instruction
PlanOfChild(child) ==
  IF child.kind = "plain" THEN [kind |-> "plan"]
  ELSE IF child.kind = "redirect" THEN RedirectOutput(child.instruction)
  ELSE ErrorOutput

\* a child instruction as the child router created it: no plan, no view port
\* instructions
Created(child) == [config |-> child, plan |-> "null", viewPorts |-> FALSE]

\* the pipeline run: the first task that rejects ends it through next.cancel
RunCanceled(run, by, output) ==
  IF run.status = "" THEN [status |-> "canceled", by |-> by, output |-> output]
  ELSE run

\* BuildNavigationPlanStep.run on a root instruction whose route redirects
StartRedirectRun(instruction) ==
  /\ planning.pc = "idle"
  /\ planning' =
       [pc |-> "over",
        root |-> [config |-> [kind |-> "redirect", instruction |-> instruction],
                  plan |-> "null", viewPorts |-> {}],
        queryString |-> instruction.queryString,
        ports |-> <<>>, tasks |-> <<>>, children |-> <<>>,
        run |-> [status |-> "canceled", by |-> 0,
                 output |-> RedirectOutput(instruction)]]
  /\ UNCHANGED outsidePlan

\* BuildNavigationPlanStep.run on a root instruction that is planned: ports
\* gives for each view port whether its strategy is replace and whether the
\* previous view port instruction has a child router; the loop starts a task
\* for each one kept with a child router
StartPlannedRun(queryString, ports) ==
  /\ planning.pc = "idle"
  /\ planning' =
       [pc |-> "building",
        root |-> [config |-> [kind |-> "plain"], plan |-> "null",
                  viewPorts |-> {}],
        queryString |-> queryString,
        ports |-> ports,
        tasks |-> [k \in DOMAIN ports |->
                     IF ~ports[k].replace /\ ports[k].childRouter
                       THEN "pending" ELSE "none"],
        children |-> [k \in DOMAIN ports |-> NoChild],
        run |-> [status |-> "", by |-> 0, output |-> NoOutput]]
  /\ UNCHANGED outsidePlan

\* the task of a kept view port: the child router creates the instruction,
\* the view port plan refers to it, and it is planned
BuildChild(k, child) ==
  /\ planning.pc = "building"
  /\ planning.tasks[k] = "pending"
  /\ LET result == PlanOfChild(child)
     IN planning' =
          [planning EXCEPT
             !.tasks[k] = "settled",
             !.children[k] =
               IF result.kind = "plan"
                 THEN [Created(child) EXCEPT !.plan = "set"]
                 ELSE Created(child),
             !.run = IF result.kind = "plan" THEN @
                     ELSE RunCanceled(@, k, result)]
  /\ UNCHANGED outsidePlan

\* every task of the plan is fulfilled: the plan is set and next() reaches
\* LoadRouteStep. determineWhatToLoad gives the kept view ports and the child
\* instructions below them their view port instructions, and loadRoute is
\* started for the replaced ones
BuildReturns ==
  /\ planning.pc = "building"
  /\ planning.run.status = ""
  /\ \A k \in DOMAIN planning.tasks : planning.tasks[k] # "pending"
  /\ planning' =
       [planning EXCEPT
          !.pc = "loading",
          !.root.plan = "set",
          !.root.viewPorts = {k \in DOMAIN planning.ports :
                                ~planning.ports[k].replace},
          !.children = [k \in DOMAIN planning.ports |->
                          IF planning.children[k] = NoChild THEN NoChild
                          ELSE [planning.children[k] EXCEPT
                                  !.viewPorts = TRUE]],
          !.tasks = [k \in DOMAIN planning.ports |->
                       IF planning.ports[k].replace
                         THEN "pending" ELSE "none"]]
  /\ UNCHANGED outsidePlan

\* loadRoute of a replaced view port: the component is loaded (loaded FALSE:
\* the loader fails), the instruction gets the view port instruction, and a
\* component with a child router has the child instruction created, planned
\* and loaded
LoadChild(k, loaded, child) ==
  /\ planning.pc = "loading"
  /\ planning.tasks[k] = "pending"
  /\ ~loaded => child = NoChild
  /\ LET result == IF ~loaded THEN ErrorOutput
                   ELSE IF child = NoChild THEN [kind |-> "plan"]
                   ELSE PlanOfChild(child)
     IN planning' =
          [planning EXCEPT
             !.tasks[k] = "settled",
             !.root.viewPorts = IF loaded THEN @ \cup {k} ELSE @,
             !.children[k] =
               IF child = NoChild THEN NoChild
               ELSE IF result.kind = "plan"
                 THEN [config |-> child, plan |-> "set", viewPorts |-> TRUE]
                 ELSE Created(child),
             !.run = IF result.kind = "plan" THEN @
                     ELSE RunCanceled(@, k, result)]
  /\ UNCHANGED outsidePlan

\* every loadRoute is fulfilled: LoadRouteStep calls next()
LoadReturns ==
  /\ planning.pc = "loading"
  /\ planning.run.status = ""
  /\ \A k \in DOMAIN planning.tasks : planning.tasks[k] # "pending"
  /\ planning' = [planning EXCEPT !.pc = "over", !.run.status = "next"]
  /\ UNCHANGED outsidePlan

PortsOfRun ==
  UNION {[1..n -> [replace : BOOLEAN, childRouter : BOOLEAN]] :
           n \in 1..Len(ViewPortNames)}

NextRedirect ==
  \/ /\ planning.pc = "idle"
     /\ \E instruction \in RedirectInstructions : StartRedirectRun(instruction)
  \/ /\ planning.pc = "idle"
     /\ \E queryString \in QueryStrings, ports \in PortsOfRun :
          StartPlannedRun(queryString, ports)
  \/ /\ planning.pc = "building"
     /\ \E k \in DOMAIN planning.tasks,
           child \in ChildInstructions(planning.queryString) :
          BuildChild(k, child)
  \/ BuildReturns
  \/ /\ planning.pc = "loading"
     /\ \E k \in DOMAIN planning.tasks, loaded \in BOOLEAN,
           child \in ChildInstructions(planning.queryString) \cup {NoChild} :
          LoadChild(k, loaded, child)
  \/ LoadReturns

SpecRedirect == Init /\ [][NextRedirect]_vars

\* a run of the two steps is under way or over
InRun == planning.pc \in {"building", "loading", "over"}
\* the child instructions created so far whose route redirects
RedirectingChildren ==
  {k \in DOMAIN planning.children :
     /\ planning.children[k] # NoChild
     /\ planning.children[k].config.kind = "redirect"}
\* the run has ended canceled with the Redirect of the instruction, which
\* carries the query string of the navigation
CanceledWith(instruction) ==
  /\ planning.run.status = "canceled"
  /\ planning.run.output = RedirectOutput(instruction)
  /\ planning.run.output.url.query = planning.queryString

----------------------------------------------------------------------------
\* C25: activate() on an active router calls nothing and changes nothing:
\* the options are not assigned, history.activate is not called, no
\* _dequeueInstruction is started; and history.activate is called exactly in
\* the steps that take the router from inactive to active.
ActivateIsIdempotent ==
  [][/\ isActive /\ "activate" \in Range(effects')
          => /\ effects' = <<"activate">>
             /\ UNCHANGED <<queue, isActive, isNavigating, couldDeactivate,
                            currentInstruction, previousLocation,
                            fallbackRoute, loads, loadCount, nextId, pending,
                            chains, slots, history>>
     /\ "historyActivate" \in Range(effects') <=> ~isActive /\ isActive'
    ]_vars

\* activate() has just returned on an active router with a navigation in
\* flight and two _dequeueInstruction calls not yet resumed
ActivateIsIdempotentWitness ==
  /\ isActive
  /\ effects = <<"activate">>
  /\ isNavigating
  /\ chains # <<>>
  /\ NumPending = 2

----------------------------------------------------------------------------
\* the events of a top-level attempt
TopEvents == {"processing", "error", "canceled", "success", "complete"}
\* what a turn published, in order
PublishedIn(eff) == SelectSeq(eff, LAMBDA e : e \in TopEvents \cup {"childComplete"})

\* C26: navigation-processing is published, once, exactly in the turn in
\* which an attempt of count 0 takes an instruction; the turn in which that
\* attempt ends publishes one of error, canceled and success and then
\* complete, and nothing else; no other turn publishes any of these events,
\* and an attempt of count above 0 publishes child-complete and nothing else.
EventProtocol ==
  [][/\ Len(chains') > Len(chains) <=> "processing" \in Range(effects')
     /\ "processing" \in Range(effects') => effects' = <<"processing">>
     /\ Len(chains') < Len(chains)
          <=> Range(effects') \cap {"error", "canceled", "success", "complete"} # {}
     /\ Len(chains') < Len(chains)
          => PublishedIn(effects')
               \in {<<e, "complete">> : e \in {"error", "canceled", "success"}}
     /\ "childComplete" \in Range(effects')
          => /\ PublishedIn(effects') = <<"childComplete">>
             /\ \E c \in DOMAIN chains :
                  /\ Top(chains[c]).count > 0
                  /\ Top(chains[c]).pc = "waitInner"
                  /\ Len(chains'[c].frames) < Len(chains[c].frames)
    ]_vars

\* the attempts of a navigation were used up: the error thrown by the last
\* _dequeueInstruction was caught by the chained attempt that called it, which
\* has published child-complete and nothing else, while the top-level attempt
\* that published processing is still waiting
EventProtocolWitness ==
  /\ effects = <<"catch", "childComplete">>
  /\ isNavigating
  /\ \E c \in DOMAIN chains :
       /\ chains[c].frames[1].count = 0
       /\ chains[c].ret.kind = "value"
       /\ chains[c].ret.res = ErrorResult

----------------------------------------------------------------------------
\* the turn is loadUrl's catch handler for a URL that did not resolve
FaultTurn == "notFound" \in Range(effects')

\* C27 as stated: after a resolution fault the promise that loadUrl returned
\* settles as a rejection.
ResolutionFaultRejects ==
  [][FaultTurn => "rejected" \in Range(effects')]_vars

\* C27: when loadUrl's URL cannot be resolved, no instruction is queued for
\* it, no _dequeueInstruction is called and no pipeline run starts or moves,
\* restorePreviousLocation is invoked once, and the promise that loadUrl
\* returned is fulfilled (with undefined), not rejected.
ResolutionFaultRestores ==
  [][/\ FaultTurn
          => /\ effects' = <<"notFound", "restore", "fulfilled">>
             /\ UNCHANGED <<queue, nextId, pending, chains, runs, shiftedAt,
                            isNavigating, currentInstruction>>
     /\ \A k \in DOMAIN queue' : queue'[k].url \in Routes
     /\ \A c \in DOMAIN chains' : \A k \in DOMAIN chains'[c].frames :
          chains'[c].frames[k].url \in Routes \cup {""}
    ]_vars

\* a URL that matches no route was loaded while nothing was known to go back
\* to: the fault was handled, the fallback route was navigated to instead and
\* nothing was queued
ResolutionFaultRestoresWitness ==
  /\ effects = <<"notFound", "restore", "fulfilled">>
  /\ previousLocation = ""
  /\ fallbackRoute # ""
  /\ loads[fallbackRoute] > 0
  /\ loads["missing"] = 0
  /\ queue = <<>>

----------------------------------------------------------------------------
\* the loads that are waiting when restorePreviousLocation is called in this
\* turn
LoadsAtRestore ==
  IF FaultTurn THEN [loads EXCEPT !["missing"] = @ - 1] ELSE loads

\* C28: restorePreviousLocation navigates to history.previousLocation when
\* it is set, with trigger false and replace true, and then no loadUrl
\* follows and no instruction is made; else to the fallback route when one is
\* configured, with trigger true, and loadUrl follows for it; else it makes
\* no navigate call and no loadUrl follows.
RestorePriority ==
  [][("restore" \in Range(effects'))
       => /\ nextId' = nextId
          /\ previousLocation' = previousLocation
          /\ IF previousLocation # ""
             THEN /\ RestorePreviousLocation =
                       [url |-> previousLocation, trigger |-> FALSE,
                        replace |-> TRUE]
                  /\ loads' = LoadsAtRestore
             ELSE IF fallbackRoute # ""
             THEN /\ RestorePreviousLocation =
                       [url |-> fallbackRoute, trigger |-> TRUE,
                        replace |-> TRUE]
                  /\ loads' = [LoadsAtRestore EXCEPT ![fallbackRoute] = @ + 1]
             ELSE /\ RestorePreviousLocation = NoNavigation
                  /\ loads' = LoadsAtRestore
    ]_vars

\* a navigation failed on a router that has both a previous location and a
\* fallback route: the previous location was restored and no load waits
RestorePriorityWitness ==
  /\ "restore" \in Range(effects)
  /\ previousLocation # ""
  /\ fallbackRoute # ""
  /\ \A u \in Urls : loads[u] = 0

----------------------------------------------------------------------------
\* the turn is the pipeline run of navigation c: its steps act
RunTurn(c) ==
  /\ c \in DOMAIN chains
  /\ Len(chains') = Len(chains)
  /\ Top(chains[c]).pc = "run"
  /\ chains'[c] # chains[c]
\* the turn is one in which _dequeueInstruction takes an instruction
TakeTurn == \E count \in 0..maxInstructionCount + 1 : TakesAt(count)
\* the turn is one in which resolveInstruction ends a top-level attempt
ResolveTopTurn == Len(chains') < Len(chains)

\* C29 as stated: the steps of a pipeline run write neither
\* currentInstruction nor isNavigating nor any other state of the router.
StepsWriteNoRouterState ==
  [][(\E c \in DOMAIN chains : RunTurn(c))
       => UNCHANGED <<currentInstruction, isNavigating, couldDeactivate,
                      queue, isActive, previousLocation, fallbackRoute>>]_vars

\* C29: isNavigating is written only when _dequeueInstruction takes an
\* instruction and when resolveInstruction ends a top-level attempt, never by
\* a pipeline run; currentInstruction is written only by a pipeline run (its
\* commit step), which sets it to the run's own instruction whenever every
\* step proceeded; couldDeactivate is written only by a pipeline run and by
\* resolveInstruction; a pipeline run writes nothing else of the router.
WritersOfRouterState ==
  [][/\ isNavigating' # isNavigating => TakeTurn \/ ResolveTopTurn
     /\ currentInstruction' # currentInstruction
          => \E c \in DOMAIN chains : RunTurn(c)
     /\ couldDeactivate' # couldDeactivate
          => ResolveTopTurn \/ \E c \in DOMAIN chains : RunTurn(c)
     /\ \A c \in DOMAIN chains :
          RunTurn(c)
            => /\ UNCHANGED <<isNavigating, queue, isActive, previousLocation,
                              fallbackRoute, loads, pending, nextId>>
               /\ Top(chains'[c]).last.kind = "next"
                    => currentInstruction'["app"] = Top(chains[c]).id
    ]_vars

\* a pipeline run in which every step proceeded has just settled: the
\* router's current instruction is the run's instruction, written while
\* _dequeueInstruction was still waiting for the run, and isNavigating is
\* still set
WritersOfRouterStateWitness ==
  /\ isNavigating
  /\ couldDeactivate
  /\ \E c \in DOMAIN chains :
       /\ Top(chains[c]).pc = "result"
       /\ Top(chains[c]).last.kind = "next"
       /\ currentInstruction["app"] = Top(chains[c]).id
       /\ Top(chains[c]).before["app"] # Top(chains[c]).id

----------------------------------------------------------------------------
\* the run of the attempt ended not completed with a navigation command
Redirecting(f) == f.own.out = "Redirect" /\ f.own.status # "completed"
\* the turn is processResult of navigation c, up to its call of the chained
\* _dequeueInstruction
ProcessTurn(c) ==
  /\ Len(chains') = Len(chains)
  /\ Top(chains[c]).pc = "result"
  /\ chains'[c] # chains[c]
\* the turn is the one in which the innermost attempt of navigation c, which
\* was waiting for its chained attempt, resolves
ResolveTurn(c) ==
  /\ Top(chains[c]).pc = "waitInner"
  /\ chains[c].ret.kind # "none"
  /\ \/ Len(chains[c].frames) = 1 /\ chains' = Remove(chains, c)
     \/ /\ Len(chains') = Len(chains)
        /\ Len(chains'[c].frames) = Len(chains[c].frames) - 1
\* what the attempt resolved with shows in the events of a top-level attempt
\* and in what a chained attempt returns to its caller
ResolvedWith(c, res) ==
  IF Top(chains[c]).count = 0
  THEN PublishedIn(effects') = <<EventName(res), "complete">>
  ELSE chains'[c].ret = [kind |-> "value", res |-> res]

\* C30 as stated: an attempt whose run ended with a navigation command
\* resolves with what its chained attempt returned.
ResolvesWithChained ==
  [][\A c \in DOMAIN chains :
       ResolveTurn(c) /\ Redirecting(Top(chains[c]))
         /\ chains[c].ret.kind = "value" /\ Top(chains[c]).count > 0
         => chains'[c].ret.res = chains[c].ret.res]_vars

\* C30: when a run ends not completed with a navigation command, processResult
\* calls its navigate once (one more load of the target waits), does not call
\* restorePreviousLocation, and then calls _dequeueInstruction(count + 1),
\* which has not yet looked at the queue; the attempt resolves with the
\* chained attempt's result when it returned one, with its own result when
\* the chained attempt returned nothing, and with an Error when it threw.
CommandChains ==
  [][\A c \in DOMAIN chains :
       /\ ProcessTurn(c) /\ Redirecting(Top(chains[c]))
            => /\ loads' = [loads EXCEPT ![Top(chains[c]).own.url] = @ + 1]
               /\ "restore" \notin Range(effects')
               /\ Len(chains'[c].frames) = Len(chains[c].frames) + 1
               /\ chains'[c].frames[Len(chains[c].frames)].pc = "waitInner"
               /\ Top(chains'[c]).pc = "await"
               /\ Top(chains'[c]).count = Top(chains[c]).count + 1
               /\ UNCHANGED <<queue, isNavigating, runs, shiftedAt>>
       /\ ResolveTurn(c) /\ Redirecting(Top(chains[c]))
            => ResolvedWith(c,
                 IF chains[c].ret.kind = "throw" THEN ErrorResult
                 ELSE IF chains[c].ret.res # NoResult THEN chains[c].ret.res
                 ELSE Top(chains[c]).own)
    ]_vars

\* a navigation whose first run ended with a navigation command has ended
\* with success: the run of a chained attempt completed and the top-level
\* attempt resolved with that result
CommandChainsWitness ==
  /\ effects = <<"success", "complete">>
  /\ chains = <<>>
  /\ \E i, j \in Ids :
       /\ shiftedAt[i] = 0 /\ runs[i] = 1
       /\ shiftedAt[j] > 0 /\ runs[j] = 1
       /\ currentInstruction["app"] = j

----------------------------------------------------------------------------
\* the run of the attempt ended canceled or rejected with an output that is
\* no navigation command
Failing(f) == f.own.out # "Redirect" /\ f.own.status # "completed"
\* how often restorePreviousLocation was called in the turn
Restored(eff) == Cardinality({k \in DOMAIN eff : eff[k] = "restore"})

----------------------------------------------------------------------------
(***************************************************************************)
(* Instructions as objects: plan and previousInstruction from the creation *)
(* of an instruction to its pruning, over several navigations of a router  *)
(* whose one view port may hold a component with a child router            *)
(***************************************************************************)
\* the instructions created in one behaviour
MaxObjects == 5

Null == 0
\* new NavigationInstruction(init): plan = null (constructor), and the
\* previousInstruction that _createNavigationInstruction hands in
NewInstruction(r, prev) ==
  [router |-> r, previousInstruction |-> prev, plan |-> "null",
   childNavigationInstruction |-> Null, finished |-> FALSE]

\* a prune that keeps the plan
PruneKeepingPlan(instruction) == [instruction EXCEPT !.previousInstruction = Null]
\* prune(instruction)
Prune(instruction) == [instruction EXCEPT !.previousInstruction = Null, !.plan = "null"]

\* no navigation yet: both routers have no current instruction
NoObjects ==
  [pc |-> "idle", instructions |-> <<>>, top |-> Null,
   current |-> [r \in Routers |-> Null], strategy |-> "", observed |-> {}]

\* the objects are kept in the variable planning
objects == IF planning = NoPlanning THEN NoObjects ELSE planning
outsideObjects == <<router, currentInstruction, nextId, chains, slots,
                    lifecycle, couldDeactivate>>

\* what a step that is handed instruction i sees of it and of the instructions
\* it links to
Observed(o, i) ==
  {[id |-> i, plan |-> o.instructions[i].plan,
    previousInstruction |-> o.instructions[i].previousInstruction]}
    \cup IF o.instructions[i].childNavigationInstruction = Null THEN {}
         ELSE LET c == o.instructions[i].childNavigationInstruction
              IN {[id |-> c, plan |-> o.instructions[c].plan,
                   previousInstruction |-> o.instructions[c].previousInstruction]}

\* loadUrl and _dequeueInstruction: the instruction is created with the
\* router's current instruction as its previous one, and line 217 assigns it
\* again when the instruction is taken from the queue
TakeObject ==
  /\ objects.pc \in {"idle", "none"}
  /\ Len(objects.instructions) < MaxObjects
  /\ LET i == Len(objects.instructions) + 1
     IN planning' =
          [objects EXCEPT
             !.pc = "taken",
             !.instructions = Append(@, NewInstruction("app", objects.current["app"])),
             !.top = i,
             !.strategy = "",
             !.observed = IF objects.current["app"] = Null THEN {}
                          ELSE Observed(objects, objects.current["app"])]
  /\ UNCHANGED outsideObjects

\* BuildNavigationPlanStep.run: the plan is assigned; the view port of a
\* first navigation is replaced; a view port that is not replaced and whose
\* previous component has a child router gets a child instruction with its
\* own plan
BuildObjectPlan(strategy) ==
  /\ objects.pc = "taken"
  /\ objects.current["app"] = Null => strategy = "replace"
  /\ LET i == objects.top
         c == Len(objects.instructions) + 1
         withChild == strategy # "replace" /\ objects.current["child"] # Null
     IN /\ withChild => c <= MaxObjects
        /\ planning' =
             [objects EXCEPT
                !.pc = "planned",
                !.strategy = strategy,
                !.instructions =
                  IF withChild
                  THEN Append([@ EXCEPT ![i].plan = "plan",
                                        ![i].childNavigationInstruction = c],
                              [NewInstruction("child", objects.current["child"])
                                 EXCEPT !.plan = "plan"])
                  ELSE [@ EXCEPT ![i].plan = "plan"]]
  /\ UNCHANGED outsideObjects

\* LoadRouteStep.run: the component of a replaced view port is loaded; when
\* it has a child router, that router is new (no current instruction) and
\* loadRoute creates and plans its instruction
LoadObjects(childRouter) ==
  /\ objects.pc = "planned"
  /\ childRouter => objects.strategy = "replace"
  /\ LET i == objects.top
         c == Len(objects.instructions) + 1
     IN /\ childRouter => c <= MaxObjects
        /\ planning' =
             [objects EXCEPT
                !.pc = "loaded",
                !.current = IF objects.strategy = "replace"
                            THEN [@ EXCEPT !["child"] = Null] ELSE @,
                !.instructions =
                  IF childRouter
                  THEN Append([@ EXCEPT ![i].childNavigationInstruction = c],
                              [NewInstruction("child", Null)
                                 EXCEPT !.plan = "plan"])
                  ELSE @]
  /\ UNCHANGED outsideObjects

\* a step before the commit ends the run: nothing is committed
CancelObjects ==
  /\ objects.pc \in {"taken", "planned", "loaded"}
  /\ planning' = [objects EXCEPT !.pc = "idle", !.top = Null]
  /\ UNCHANGED outsideObjects

\* _commitChanges of instruction i up to its await: the router's current
\* instruction is assigned; a missing router-view throws
CommitObject(o, i) ==
  [o EXCEPT !.current[o.instructions[i].router] = i]

\* _commitChanges from its await on: prune(this)
FinishObject(o, i) ==
  [o EXCEPT !.instructions[i] = [Prune(@) EXCEPT !.finished = TRUE]]

\* CommitChangesStep.run: _commitChanges of the top instruction, which
\* commits the child instruction of its view port before it is pruned itself;
\* failed names the instruction whose _commitChanges throws
CommitObjects(failed) ==
  /\ objects.pc = "loaded"
  /\ LET i == objects.top
         c == objects.instructions[i].childNavigationInstruction
         o1 == CommitObject(objects, i)
         o2 == IF c = Null \/ failed = "top" THEN o1
               ELSE IF failed = "child" THEN CommitObject(o1, c)
               ELSE FinishObject(CommitObject(o1, c), c)
         o3 == IF failed = "no" THEN FinishObject(o2, i) ELSE o2
     IN /\ failed = "child" => c # Null
        /\ planning' =
             [o3 EXCEPT !.pc = IF failed = "no" THEN "postRender" ELSE "idle",
                        !.top = IF failed = "no" THEN i ELSE Null]
  /\ UNCHANGED outsideObjects

\* the steps of the postRender slot are handed the committed instruction
PostRender ==
  /\ objects.pc = "postRender"
  /\ planning' = [objects EXCEPT !.pc = "idle", !.top = Null,
                                 !.observed = Observed(objects, objects.top)]
  /\ UNCHANGED outsideObjects

NextObjects ==
  \/ TakeObject
  \/ \E strategy \in Strategies : BuildObjectPlan(strategy)
  \/ \E childRouter \in BOOLEAN : LoadObjects(childRouter)
  \/ CancelObjects
  \/ \E failed \in {"no", "top", "child"} : CommitObjects(failed)
  \/ PostRender

SpecObjects == InitPipeline /\ [][NextObjects]_vars

\* an instruction whose _commitChanges has finished, at its own level and at
\* the nested one
Committed(i) ==
  /\ objects.instructions[i].finished
  /\ LET c == objects.instructions[i].childNavigationInstruction
     IN c # Null => objects.instructions[c].finished

\* C32: an instruction whose _commitChanges has finished has neither plan nor
\* previous instruction, and neither has its child instruction, from then on;
\* so it is for what the steps of the postRender slot and the next navigation
\* are handed.
Pruned ==
  /\ \A i \in DOMAIN objects.instructions :
       Committed(i)
         => LET c == objects.instructions[i].childNavigationInstruction
            IN /\ objects.instructions[i].plan = "null"
               /\ objects.instructions[i].previousInstruction = Null
               /\ c # Null => /\ objects.instructions[c].plan = "null"
                              /\ objects.instructions[c].previousInstruction = Null
  /\ \A seen \in objects.observed :
       Committed(seen.id)
         => seen.plan = "null" /\ seen.previousInstruction = Null

\* the second navigation kept its view port and planned a child instruction;
\* it was committed at both levels, and the third navigation has been handed
\* it as its previous instruction
PrunedWitness ==
  /\ objects.pc = "taken"
  /\ \E i \in DOMAIN objects.instructions :
       /\ objects.instructions[objects.top].previousInstruction = i
       /\ objects.instructions[i].childNavigationInstruction # Null
       /\ Committed(i)
       /\ objects.observed # {}
       /\ \E h \in DOMAIN objects.instructions :
            h < i /\ objects.instructions[h].finished
              /\ objects.instructions[h].router = "app"

----------------------------------------------------------------------------
(***************************************************************************)
(* One run over the plan of an instruction: what every step does to the    *)
(* component and the view port of every slot                               *)
(***************************************************************************)
RECURSIVE AllReplace(_)
\* the plan of an instruction without previous instruction (lines 405-416):
\* every view port is replaced
AllReplace(plan) ==
  \A k \in DOMAIN plan : plan[k].strategy = "replace" /\ AllReplace(plan[k].kids)

RECURSIVE SlotPlan(_)
\* the component of a replaced view port is new and so is its child router:
\* loadRoute plans the child instruction without previous instruction
SlotPlan(plan) ==
  \A k \in DOMAIN plan :
    IF plan[k].strategy = "replace" THEN AllReplace(plan[k].kids)
    ELSE SlotPlan(plan[k].kids)
SlotPlans == {plan \in Plans : SlotPlan(plan)}

RECURSIVE SlotPaths(_, _, _)
\* the slots of a plan, over all levels, from view port k on
SlotPaths(plan, path, k) ==
  IF k > Len(plan) THEN {}
  ELSE {path \o <<k>>} \cup SlotPaths(plan[k].kids, path \o <<k>>, 1)
         \cup SlotPaths(plan, path, k + 1)

RECURSIVE SlotAt(_, _)
SlotAt(plan, path) ==
  IF Len(path) = 1 THEN plan[path[1]]
  ELSE SlotAt(plan[path[1]].kids, Tail(path))

RECURSIVE DetermineWhatToLoadAll(_, _, _)
\* a determineWhatToLoad that loads the component of every slot
DetermineWhatToLoadAll(plan, path, k) ==
  IF k > Len(plan) THEN {}
  ELSE {<<"load", path \o <<k>>>>}
         \cup DetermineWhatToLoadAll(plan[k].kids, path \o <<k>>, 1)
         \cup DetermineWhatToLoadAll(plan, path, k + 1)

RECURSIVE DetermineWhatToLoad(_, _, _)
\* determineWhatToLoad and loadRoute: the component of a replaced view port
\* is loaded, and so are those of its child instruction; the view port
\* instruction of any other view port takes viewPortPlan.prevComponent
DetermineWhatToLoad(plan, path, k) ==
  IF k > Len(plan) THEN {}
  ELSE LET here == path \o <<k>> IN
       {<<IF plan[k].strategy = "replace" THEN "load" ELSE "reuse", here>>}
         \cup DetermineWhatToLoad(plan[k].kids, here, 1)
         \cup DetermineWhatToLoad(plan, path, k + 1)

RECURSIVE CommitChanges(_, _, _)
\* _commitChanges(waitToSwap = true): process and the delayed swap for a
\* replaced view port, and the _commitChanges of every child instruction
CommitChanges(plan, path, k) ==
  IF k > Len(plan) THEN {}
  ELSE LET here == path \o <<k>> IN
       (IF plan[k].strategy = "replace"
        THEN {<<"process", here>>, <<"swap", here>>} ELSE {})
         \cup CommitChanges(plan[k].kids, here, 1)
         \cup CommitChanges(plan, path, k + 1)

\* the steps of a pipeline behind the plan, without the slots
RunSteps(useCanDeactivateStep) ==
  (IF useCanDeactivateStep THEN <<"canDeactivate">> ELSE <<>>)
    \o <<"loadRoute", "canActivate", "deactivate", "activate", "commit">>

\* what a step that goes on to the next one has called, on which slot
StepCalls(step, plan) ==
  CASE step \in CallbackNames ->
         LET order == Order(step, plan)
         IN {<<step, order[k]>> : k \in DOMAIN order}
    [] step = "loadRoute" -> DetermineWhatToLoad(plan, <<>>, 1)
    [] step = "commit" -> CommitChanges(plan, <<>>, 1)

outsideSlots == <<router, currentInstruction, nextId, chains, slots, planning,
                  couldDeactivate>>

\* the run of an instruction with this plan starts
BeginSlots(plan, useCanDeactivateStep) ==
  /\ lifecycle.pc = "idle"
  /\ lifecycle' = [pc |-> "run", plan |-> plan,
                   steps |-> RunSteps(useCanDeactivateStep), idx |-> 1,
                   calls |-> {}]
  /\ UNCHANGED outsideSlots

\* the step the run has reached makes its calls and goes on, or ends the run
SlotStep(goesOn) ==
  /\ lifecycle.pc = "run"
  /\ LET step == lifecycle.steps[lifecycle.idx] IN
     lifecycle' =
       IF ~goesOn THEN [lifecycle EXCEPT !.pc = "canceled"]
       ELSE [lifecycle EXCEPT
               !.calls = @ \cup StepCalls(step, lifecycle.plan),
               !.idx = @ + 1,
               !.pc = IF lifecycle.idx = Len(lifecycle.steps)
                      THEN "completed" ELSE "run"]
  /\ UNCHANGED outsideSlots

NextSlots ==
  \/ /\ lifecycle.pc = "idle"
     /\ \E plan \in SlotPlans, useCanDeactivateStep \in BOOLEAN :
          BeginSlots(plan, useCanDeactivateStep)
  \/ \E goesOn \in BOOLEAN : SlotStep(goesOn)

SpecSlots == InitPipeline /\ [][NextSlots]_vars

\* the slots of the run's plan whose strategy is no-change
NoChangeSlots ==
  {path \in SlotPaths(lifecycle.plan, <<>>, 1) :
     SlotAt(lifecycle.plan, path).strategy = "no-change"}

\* C33: in a completed run no callback is invoked on the component of a slot
\* whose strategy is no-change, the component is not loaded but taken from
\* the previous instruction, and its view port gets neither process nor swap.
NoChangeIsUntouched ==
  lifecycle.pc = "completed"
    => \A path \in NoChangeSlots :
         /\ \A call \in CallbackNames \cup {"load", "process", "swap"} :
              <<call, path>> \notin lifecycle.calls
         /\ <<"reuse", path>> \in lifecycle.calls

\* a completed run over a plan whose first view port is kept (its component
\* has every callback) above a nested slot that goes through the lifecycle,
\* beside a replaced view port
NoChangeIsUntouchedWitness ==
  /\ lifecycle.pc = "completed"
  /\ Len(lifecycle.plan) = 2
  /\ lifecycle.plan[1].strategy = "no-change"
  /\ lifecycle.plan[1].has
  /\ Len(lifecycle.plan[1].kids) = 1
  /\ lifecycle.plan[1].kids[1].strategy = "invoke-lifecycle"
  /\ lifecycle.plan[2].strategy = "replace"
  /\ <<"canDeactivate", <<1, 1>>>> \in lifecycle.calls
  /\ <<"process", <<2>>>> \in lifecycle.calls

----------------------------------------------------------------------------
\* the plan loop has just planned a view port with equal identities in a
\* nested instruction that is forced to invoke-lifecycle at least
Forced ==
  /\ Planned
  /\ planning.forceLifecycleMinimum
  /\ ~planning.viewPortPlan.replaced

SuccessTurn == PublishedIn(effects') = <<"success", "complete">>

\* C35: after any top-level navigation finishes with the success event,
\* history.previousLocation is the fragment and query string of the
\* instruction that is then router.currentInstruction, also when the
\* navigation went through a redirect or drained a queued instruction.
\* resolveInstruction stores the fragment of the top-level instruction, while
\* the completed result it reports may come from a chained attempt that
\* committed another instruction.
LocationOfCurrentAction ==
  SuccessTurn =>
    /\ currentInstruction'["app"] \in Ids
    /\ previousLocation' = fragment'
LocationOfCurrent == [][LocationOfCurrentAction]_vars

(***************************************************************************)
(* C36  currentInstruction after a run that did not complete               *)
(***************************************************************************)
\* the turn settles the pipeline run of chain c with a result that is not
\* completed
FailedRunTurn(c) ==
  /\ RunTurn(c)
  /\ Top(chains'[c]).pc = "result"
  /\ Top(chains'[c]).own.status # "completed"

\* C36: a pipeline run that does not end with a completed outcome leaves
\* router.currentInstruction equal to its value before the run.
\* _commitChanges assigns router.currentInstruction = this before it looks
\* for the view ports, so a commit that throws has already replaced it.
FailedRunKeepsCurrentAction ==
  \A c \in DOMAIN chains :
    FailedRunTurn(c) => currentInstruction' = Top(chains[c]).before
FailedRunKeepsCurrent == [][FailedRunKeepsCurrentAction]_vars

(***************************************************************************)
(* C37  pipelines created without the can-deactivate step                  *)
(***************************************************************************)
\* the turn in which _dequeueInstruction creates a pipeline and runs it
CreatePipelineTurn == runs' # runs

\* C37: whenever a pipeline is created without the can-deactivate step
\* (couldDeactivate is true), the canDeactivate callbacks of the components
\* of the router's currentInstruction at that moment have all been invoked
\* and have all allowed earlier in the same top-level navigation.
\* couldDeactivate stays true over the chained attempts of a navigation, also
\* behind a commit that replaced the components that had been asked.
SkippedOnlyAfterConsultedAction ==
  CreatePipelineTurn /\ couldDeactivate
    => currentInstruction["app"] \in consulted \cup {0}
SkippedOnlyAfterConsulted == [][SkippedOnlyAfterConsultedAction]_vars

(***************************************************************************)
(* C38  every dequeued instruction is settled                              *)
(***************************************************************************)
\* the continuations of the router's promises: once one of them can run it
\* does (the microtask queue is served, every pipeline step terminates).
\* A suspended _dequeueInstruction() call of attempt 0 resumes
ContinueCall ==
  UNCHANGED inStep /\ \E nav \in BOOLEAN : DequeueInstruction(nav)
\* the attempt on top of a navigation in flight goes on
ContinueAttempt ==
  /\ UNCHANGED inStep
  /\ \E c \in DOMAIN chains :
       \/ DequeueRetry(c)
       \/ PipelineRun(c)
       \/ ProcessResult(c)
       \/ ResolveInstruction(c)
       \/ TailReturn(c)

\* the router with its continuations scheduled fairly; what the application
\* does (loadUrl, activate, registerViewPort) may or may not happen
SpecLive ==
  Init /\ [][Next]_vars /\ WF_vars(ContinueCall) /\ WF_vars(ContinueAttempt)

\* C38: every instruction that _dequeueInstruction removes from the queue is
\* eventually settled: its resolve callback is invoked with a result.
\* The attempt of count maxInstructionCount - 1 and the attempt that throws
\* take an instruction and return without running or resolving it.
TakenIsResolved ==
  \A i \in Ids : (shiftedAt[i] # -1) ~> (i \in resolved)

(***************************************************************************)
(* C39  the in-flight flag is released                                     *)
(***************************************************************************)
\* the router is idle: not navigating, couldDeactivate and the direction
\* flags reset
Released == ~isNavigating /\ ~couldDeactivate /\ ~direction

\* C39: whenever isNavigating becomes true, then provided every pipeline
\* step and callback eventually proceeds, cancels or rejects, isNavigating
\* eventually becomes false again with couldDeactivate and all direction
\* flags reset to false.
InFlightIsReleased == isNavigating ~> Released

\* a navigation that went through chained attempts has ended and the router
\* is idle again
InFlightIsReleasedWitness ==
  /\ Released
  /\ chains = <<>>
  /\ \E i, j \in Ids :
       /\ shiftedAt[i] = 0 /\ i \in resolved
       /\ shiftedAt[j] > 0

(***************************************************************************)
(* C40  addStep and removeStep change one slot by one step                 *)
(***************************************************************************)
\* steps without step
Without(steps, step) == SelectSeq(steps, LAMBDA x : x # step)

\* C40: removeStep(slot, step) removes exactly that step from the named slot
\* and nothing else, and leaves the slot's step list unchanged when the step
\* is not registered in it; addStep never registers the same step twice in
\* a slot and changes no slot for an unknown slot name.
\* removeStep splices at indexOf(step), which is -1 for a step that is not
\* in the slot: splice(-1, 1) removes the last step of the slot.
StepsFrameAction ==
  \A name \in SlotInputs, step \in CustomSteps :
    /\ RemoveStep(name, step)
         => slots' = IF FindStep(name) # ""
                     THEN [slots EXCEPT ![FindStep(name)] = Without(@, step)]
                     ELSE slots
    /\ AddStep(name, step)
         => /\ FindStep(name) = "" => slots' = slots
            /\ \A sl \in SlotNames : \A j, k \in DOMAIN slots'[sl] :
                 slots'[sl][j] = slots'[sl][k] => j = k
StepsFrame == [][StepsFrameAction]_vars
====
